---------------------------- MODULE Spec2Model ----------------------------
(***************************************************************************)
(* A model of the SEO analysis engine of server/services/seo-analyzer.ts.  *)
(*                                                                         *)
(* Strings that the code takes apart (URLs, hrefs, robots.txt text) are    *)
(* sequences of tokens, so that startsWith, split, trim, toLowerCase and   *)
(* URL resolution are computed and not assumed.  A parsed HTML document is *)
(* a record of what the cheerio selectors of the code read from it.        *)
(***************************************************************************)
EXTENDS Integers, Sequences, FiniteSets, TLC

VARIABLES
    pc,            \* position of the analyzeWebsite run (or of the function under check)
    failure,       \* message of the error the run ended with, "" while none
    page,          \* environment: the document the site serves at the analyzed URL
    robotsFile,    \* environment: the robots.txt text of the site
    liveness,      \* environment: what each linked URL answers to a HEAD probe
    url,           \* normalizedUrl
    html,          \* the fetched document
    performance,   \* performance facts of the primary fetch
    isAmp,         \* isCurrentAmp
    ampUrl,        \* ampUrl (Null while unresolved)
    regularUrl,    \* regularUrl (Null while unresolved)
    metaTags,      \* extractMetaTags result
    schema,        \* extractSchema result
    breadcrumbs,   \* extractBreadcrumbs result
    allLinks,      \* analyzeLinks: collected links
    linksToCheck,  \* analyzeLinks: the sliced check list being iterated
    broken,        \* analyzeLinks: broken list under construction
    links,         \* analyzeLinks result
    robotsTxt,     \* robotsTxt facts
    scores,        \* calculateScore result
    ampComparison, \* compareAmpAndRegular result
    ampPatterns,   \* detectAmpUrl: the candidate URLs not yet probed
    requests,      \* history of the network requests issued, in order
    ampData,       \* compareAmpAndRegular: the re-fetched AMP page
    regularData,   \* compareAmpAndRegular: the re-fetched regular page
    seoAnalyses,   \* MemStorage.seoAnalyses: id -> stored analysis
    currentAnalysisId, \* MemStorage.currentAnalysisId
    creations,     \* history of the createSeoAnalysis calls: argument and returned record
    outstanding,   \* the probes awaited: issued and not yet answered
    reqBody,       \* POST /api/analyze: the body of the request being handled
    responses,     \* POST /api/analyze: the responses sent, in order
    isRunning,     \* ScheduledScannerService.isRunning
    sweeps,        \* the calls of checkScheduledScans past the flag, each at its await
    ticks,         \* history: the timer ticks so far
    skipped,       \* history: the ticks that returned at the flag
    ended,         \* history: the sweeps that have ended
    scheduledScans,   \* MemStorage.scheduledScans: id -> scan
    currentScanId,    \* MemStorage.currentScanId
    scanAlerts,       \* MemStorage.scanAlerts: id -> alert
    dbScheduledScans, \* DatabaseStorage: the rows of scheduled_scans by id
    dbScanIdSeq,      \* DatabaseStorage: the next value of the serial id of scheduled_scans
    dbScanAlerts,     \* DatabaseStorage: the rows of scan_alerts by id
    calls             \* history of the calls made to both storages, with what each returned

vars == <<pc, failure, page, robotsFile, liveness, url, html, performance, isAmp, ampUrl,
          regularUrl, metaTags, schema, breadcrumbs, allLinks, linksToCheck,
          broken, links, robotsTxt, scores, ampComparison, ampPatterns, requests,
          ampData, regularData, seoAnalyses, currentAnalysisId, creations,
          outstanding, reqBody, responses, isRunning, sweeps, ticks, skipped, ended,
          scheduledScans, currentScanId, scanAlerts, dbScheduledScans, dbScanIdSeq,
          dbScanAlerts, calls>>

\* The fields of MemStorage and the history of its calls.
storageVars == <<seoAnalyses, currentAnalysisId, creations>>

\* The probes a run of analyzeWebsite is waiting for.
probeVars == <<outstanding>>

\* The request handled by POST /api/analyze and the responses it sent.
apiVars == <<reqBody, responses>>

\* The scheduler and the history of its ticks and sweeps.
schedulerVars == <<isRunning, sweeps, ticks, skipped, ended>>

\* The scheduled scans and the alerts of the two storages, and the history
\* of the calls made to them.
scanVars ==
    <<scheduledScans, currentScanId, scanAlerts, dbScheduledScans, dbScanIdSeq,
      dbScanAlerts, calls>>

\* What the steps of analyzeWebsite that await no probe leave alone, besides
\* the storage.
serviceVars == <<probeVars, apiVars, schedulerVars, scanVars>>

\* The variables of a run of analyzeWebsite and of its environment.
analysisVars ==
    <<pc, failure, page, robotsFile, liveness, url, html, performance, isAmp, ampUrl,
      regularUrl, metaTags, schema, breadcrumbs, allLinks, linksToCheck,
      broken, links, robotsTxt, scores, ampComparison, ampPatterns, requests,
      ampData, regularData>>

-----------------------------------------------------------------------------
(* Generic helpers                                                         *)

\* JavaScript null / undefined for a string-valued slot.
Null == <<"null">>

\* JavaScript truthiness of a string-or-null value: neither null nor "".
Truthy(s) == s # Null /\ s # <<>>

Min(a, b) == IF a <= b THEN a ELSE b

Max(a, b) == IF a >= b THEN a ELSE b

\* Array.prototype.slice(0, n)
Slice(s, n) == SubSeq(s, 1, Min(n, Len(s)))

\* String.prototype.startsWith for a one-token prefix.
StartsWith(s, tok) == Len(s) > 0 /\ s[1] = tok

\* Longest prefix of s whose tokens are all in S.
RECURSIVE TakeWhile(_, _)
TakeWhile(s, S) ==
    IF s = <<>> \/ s[1] \notin S THEN <<>>
    ELSE <<s[1]>> \o TakeWhile(Tail(s), S)

DropN(s, n) == SubSeq(s, n + 1, Len(s))

-----------------------------------------------------------------------------
(* URLs (the WHATWG URL class of Node, for the URL shapes the model uses)  *)

SpecialSchemes == {"http:", "https:"}

OpaqueSchemes == {"mailto:", "tel:", "javascript:", "MAILTO:"}

HostTokens == {"example.com", "EXAMPLE.COM", "other.com", "amp.example.com", "["}

\* Hosts the URL parser rejects ("Invalid URL").
InvalidHosts == {"["}

\* Path segments, each with its leading slash ("/" is the empty segment).
PathTokens == {"/", "/blog", "/about", "/amp", "/post", "/contact"}

\* Relative references without a leading slash.
RelTokens == {"about", "contact"}

QueryTokens == {"?id=1", "?amp=1"}

\* The parser lower-cases the scheme and the host.
LowerTok(t) ==
    CASE t = "EXAMPLE.COM" -> "example.com"
      [] t = "MAILTO:" -> "mailto:"
      [] OTHER -> t

RelSegment(t) == CASE t = "about" -> "/about" [] t = "contact" -> "/contact"

NoUrl == [scheme |-> "", host |-> "", path |-> <<>>, query |-> <<>>, frag |-> <<>>]

\* The part of an absolute special URL after "scheme://host".
AfterHost(scheme, host, rest) ==
    LET p == TakeWhile(rest, PathTokens)
        r1 == DropN(rest, Len(p))
        q == TakeWhile(r1, QueryTokens)
        f == DropN(r1, Len(q))
    IN  IF f # <<>> /\ f[1] # "#"
          THEN [ok |-> FALSE, url |-> NoUrl]
          ELSE [ok |-> TRUE,
                url |-> [scheme |-> scheme, host |-> host,
                         path |-> IF p = <<>> THEN <<"/">> ELSE p,
                         query |-> q, frag |-> f]]

\* new URL(s): s must be absolute.
ParseAbsolute(s) ==
    IF s = <<>> THEN [ok |-> FALSE, url |-> NoUrl]
    ELSE IF s[1] \in SpecialSchemes
      THEN IF Len(s) >= 3 /\ s[2] = "//" /\ s[3] \in HostTokens \ InvalidHosts
             THEN AfterHost(s[1], LowerTok(s[3]), DropN(s, 3))
             ELSE [ok |-> FALSE, url |-> NoUrl]
    ELSE IF s[1] \in OpaqueSchemes
      THEN [ok |-> TRUE,
            url |-> [scheme |-> LowerTok(s[1]), host |-> "", path |-> Tail(s),
                     query |-> <<>>, frag |-> <<>>]]
    ELSE [ok |-> FALSE, url |-> NoUrl]

\* new URL(s, base): s is absolute, or a reference resolved against base.
ParseURL(s, baseStr) ==
    LET b == ParseAbsolute(baseStr) IN
    IF s # <<>> /\ s[1] \in SpecialSchemes \cup OpaqueSchemes
      THEN ParseAbsolute(s)
    ELSE IF ~b.ok THEN [ok |-> FALSE, url |-> NoUrl]
    ELSE IF s = <<>> THEN [ok |-> TRUE, url |-> [b.url EXCEPT !.frag = <<>>]]
    ELSE IF s[1] = "#" THEN [ok |-> TRUE, url |-> [b.url EXCEPT !.frag = s]]
    ELSE IF s[1] \in QueryTokens
      THEN [ok |-> TRUE, url |-> [b.url EXCEPT !.query = <<s[1]>>, !.frag = DropN(s, 1)]]
    ELSE IF s[1] = "//"
      THEN IF Len(s) >= 2 /\ s[2] \in HostTokens \ InvalidHosts
             THEN AfterHost(b.url.scheme, LowerTok(s[2]), DropN(s, 2))
             ELSE [ok |-> FALSE, url |-> NoUrl]
    ELSE IF s[1] \in PathTokens
      THEN AfterHost(b.url.scheme, b.url.host, s)
    ELSE IF s[1] \in RelTokens
      THEN AfterHost(b.url.scheme, b.url.host,
                     SubSeq(b.url.path, 1, Len(b.url.path) - 1)
                       \o <<RelSegment(s[1])>> \o Tail(s))
    ELSE [ok |-> FALSE, url |-> NoUrl]

\* URL.prototype.href / toString()
Href(u) ==
    IF u.scheme \in SpecialSchemes
      THEN <<u.scheme, "//", u.host>> \o u.path \o u.query \o u.frag
      ELSE <<u.scheme>> \o u.path

\* URL.prototype.hostname
Hostname(u) == u.host

\* URL.prototype.origin, pathname and search
Origin(u) == <<u.scheme, "//", u.host>>

Pathname(u) == u.path

Search(u) == u.query

-----------------------------------------------------------------------------
(* Documents: what the selectors of the code read from a parsed page       *)

\* <a> elements in document order.  href is Null when the element has no
\* href attribute; text is the trimmed anchor text, identified by a number;
\* rel is the rel attribute (Null when absent).
Anchor(href, text, rel) == [href |-> href, text |-> text, rel |-> rel]

\* String.prototype.includes('nofollow') on a rel attribute value.
RelIncludesNofollow(rel) == rel \in {<<"nofollow">>, <<"noopener", " ", "nofollow">>}

\* A document.  title and description are the trimmed texts of <title> and
\* <meta name="description"> (<<>> when missing or empty); robots is the
\* trimmed content of <meta name="robots"> as tokens and lang the trimmed lang
\* attribute of <html> (Null when missing); jsonld lists the JSON-LD blocks by
\* the @type they parse to ("malformed": JSON.parse throws, "untyped": no
\* @type); microdata counts the elements with a non-empty itemtype;
\* ariaBreadcrumb tells whether an element has aria-label="breadcrumb"; size is
\* the length of the markup.
Doc(rootAmp, amphtml, canonical, title, description, robots, lang, jsonld, microdata, ariaBreadcrumb, anchors, size) ==
    [rootAmp |-> rootAmp, amphtml |-> amphtml, canonical |-> canonical,
     title |-> title, description |-> description, robots |-> robots,
     lang |-> lang, jsonld |-> jsonld, microdata |-> microdata,
     ariaBreadcrumb |-> ariaBreadcrumb, anchors |-> anchors, size |-> size]

\* A text of n characters.
Text(n) == [i \in 1..n |-> "x"]

NoDoc == Doc(FALSE, Null, Null, <<>>, <<>>, Null, Null, <<>>, 0, FALSE, <<>>, 0)

-----------------------------------------------------------------------------
(* Network outcomes                                                        *)

\* A response with an HTTP status, or a transport-level failure (DNS,
\* connect, timeout, redirect cap) that makes axios reject.
Response(status) == [transport |-> FALSE, status |-> status, message |-> Null]

TransportFailure(msg) == [transport |-> TRUE, status |-> 0, message |-> <<msg>>]

\* Outcomes of a HEAD probe.
ProbeOutcomes ==
    {Response(200), Response(400), Response(404),
     TransportFailure("timeout of 5000ms exceeded")}

\* A response to a GET: status, body, the time it took, the content-length
\* header (-1: no header) and whether the final URL differs from the requested.
PageResponse(status, body, loadTime, contentLength, redirected) ==
    [transport |-> FALSE, status |-> status, message |-> Null, body |-> body,
     loadTime |-> loadTime, contentLength |-> contentLength, redirected |-> redirected]

PageFailure(msg) ==
    [transport |-> TRUE, status |-> 0, message |-> <<msg>>, body |-> NoDoc,
     loadTime |-> 0, contentLength |-> -1, redirected |-> FALSE]

\* One entry of the request history: what was asked, of which URL, for which
\* step, and the status that came back (0: transport failure).
Request(method, purpose, target, outcome) ==
    [method |-> method, purpose |-> purpose, url |-> target, status |-> outcome.status,
     transport |-> outcome.transport]

-----------------------------------------------------------------------------
(* analyzeLinks                                                            *)

\* Cap on the external links put on the check list.
ExternalCheckCap == 10

\* Cap on the liveness checks of one page.
LinkCheckCap == 20

\* The early return without the test for tel: hrefs.
SkipHrefNoTel(href) ==
    \/ ~Truthy(href)
    \/ StartsWith(href, "#")
    \/ StartsWith(href, "mailto:")

\* The early return of the anchor callback: hrefs that are never collected.
SkipHref(href) ==
    \/ ~Truthy(href)
    \/ StartsWith(href, "#")
    \/ StartsWith(href, "mailto:")
    \/ StartsWith(href, "tel:")

\* The links collected from the anchors, in document order.
RECURSIVE CollectLinks(_, _)
CollectLinks(anchors, baseUrl) ==
    IF anchors = <<>> THEN <<>>
    ELSE LET a == anchors[1]
             abs == ParseURL(a.href, baseUrl)
             base == ParseAbsolute(baseUrl).url
             rest == CollectLinks(Tail(anchors), baseUrl)
         IN  IF a.href = Null \/ SkipHref(a.href) \/ ~abs.ok THEN rest
             ELSE <<[url |-> Href(abs.url), text |-> a.text,
                     isExternal |-> Hostname(abs.url) # Hostname(base),
                     nofollow |-> RelIncludesNofollow(a.rel)]>> \o rest

IsInternal(link) == ~link.isExternal

IsExternal(link) == link.isExternal

InternalLinks(all) == SelectSeq(all, IsInternal)

ExternalLinks(all) == SelectSeq(all, IsExternal)

\* The check list without the cap on the total.
CheckListUncapped(all) ==
    InternalLinks(all) \o Slice(ExternalLinks(all), ExternalCheckCap)

\* linksToCheck.slice(0, 20)
CheckList(all) ==
    Slice(InternalLinks(all) \o Slice(ExternalLinks(all), ExternalCheckCap),
          LinkCheckCap)

\* checkLinkStatus: the result for one probe outcome.
checkLinkStatus(outcome) ==
    IF outcome.transport
      THEN [status |-> 0, error |-> outcome.message]
      ELSE [status |-> outcome.status, error |-> Null]

\* The status test taken as strict.
IsBrokenStrict(result) == result.status > 400 \/ result.status = 0

\* The test that puts a checked link on the broken list.
IsBroken(result) == result.status >= 400 \/ result.status = 0

\* The externalLinks entry of a collected external link.
\* The entry of an external link carrying the status its probe returned.
ExternalEntryWithProbedStatus(link) ==
    LET probed == {j \in 1..Len(broken) : broken[j].url = link.url} IN
    [url |-> link.url, text |-> link.text, nofollow |-> link.nofollow,
     status |-> IF probed # {} THEN broken[CHOOSE j \in probed : TRUE].status ELSE 200]

\* An entry of externalLinks: status is the constant 200.
ExternalEntry(link) ==
    [url |-> link.url, text |-> link.text, nofollow |-> link.nofollow, status |-> 200]

LinkFacts(all, brokenList) ==
    LET ext == ExternalLinks(all) IN
    [total |-> Len(all),
     internal |-> Len(InternalLinks(all)),
     external |-> Len(ext),
     broken |-> brokenList,
     externalLinks |-> [i \in 1..Len(ext) |-> ExternalEntry(ext[i])]]

NoLinks == [total |-> 0, internal |-> 0, external |-> 0, broken |-> <<>>,
            externalLinks |-> <<>>]

-----------------------------------------------------------------------------
(* Signal extractors                                                       *)

\* `value || null`
OrNull(s) == IF Truthy(s) THEN s ELSE Null

\* String.prototype.includes on the robots meta content, for the three
\* substrings the code looks for ("noindex" contains "index").
Includes(s, sub) ==
    \E i \in 1..Len(s) :
        \/ s[i] = sub
        \/ sub = "index" /\ s[i] = "noindex"

\* The canonical compared with the input URL as it is written.
CanonicalMatchesVerbatim(canonical, originalUrl) == canonical = originalUrl

\* canonicalMatches: the hrefs of the two parsed URLs are compared, and a
\* URL that does not parse gives false.
CanonicalMatches(canonical, originalUrl) ==
    LET canonicalUrl == ParseURL(canonical, originalUrl)
        inputUrl == ParseAbsolute(originalUrl)
    IN  IF canonical # Null
          THEN IF canonicalUrl.ok /\ inputUrl.ok
                 THEN Href(canonicalUrl.url) = Href(inputUrl.url)
                 ELSE FALSE
          ELSE FALSE

extractMetaTags(doc, originalUrl) ==
    LET title == OrNull(doc.title)
        description == OrNull(doc.description)
        canonical == OrNull(doc.canonical)
        robots == OrNull(doc.robots)
        htmlLang == OrNull(doc.lang)
        canonicalMatches == CanonicalMatches(canonical, originalUrl)
    IN  [title |-> title,
         titleLength |-> IF title # Null THEN Len(title) ELSE 0,
         description |-> description,
         descriptionLength |-> IF description # Null THEN Len(description) ELSE 0,
         canonical |-> canonical,
         canonicalMatches |-> canonicalMatches,
         robots |-> robots,
         robotsValid |-> IF robots # Null
                           THEN Includes(robots, "index") \/ Includes(robots, "noindex")
                           ELSE FALSE,
         htmlLang |-> htmlLang,
         maxImagePreview |-> IF robots # Null
                               THEN Includes(robots, "max-image-preview:large")
                               ELSE FALSE]

NoMetaTags == extractMetaTags(NoDoc, <<>>)

\* JSON-LD blocks that parse and carry an @type.
IsTyped(block) == block \notin {"malformed", "untyped"}

extractSchema(doc) ==
    LET types == Len(SelectSeq(doc.jsonld, IsTyped)) + doc.microdata
    IN  [found |-> types > 0, types |-> types]

IsBreadcrumbList(block) == block = "BreadcrumbList"

extractBreadcrumbs(doc) ==
    IF SelectSeq(doc.jsonld, IsBreadcrumbList) # <<>>
      THEN [found |-> TRUE, type |-> "schema.org/BreadcrumbList"]
    ELSE IF doc.ariaBreadcrumb
      THEN [found |-> TRUE, type |-> "aria-label=\"breadcrumb\""]
    ELSE [found |-> FALSE, type |-> "null"]

-----------------------------------------------------------------------------
(* parseRobotsTxt                                                          *)

Whitespace == {" ", "\t", "\r"}

RECURSIVE TrimStart(_)
TrimStart(s) == IF s # <<>> /\ s[1] \in Whitespace THEN TrimStart(Tail(s)) ELSE s

RECURSIVE TrimEnd(_)
TrimEnd(s) ==
    IF s # <<>> /\ s[Len(s)] \in Whitespace THEN TrimEnd(SubSeq(s, 1, Len(s) - 1)) ELSE s

\* String.prototype.trim
Trim(s) == TrimEnd(TrimStart(s))

\* String.prototype.split(sep): the pieces between the separators.
RECURSIVE Split(_, _)
Split(s, sep) ==
    LET first == TakeWhile(s, {s[i] : i \in 1..Len(s)} \ {sep})
    IN  IF Len(first) = Len(s) THEN <<first>>
        ELSE <<first>> \o Split(DropN(s, Len(first) + 1), sep)

\* Array.prototype.join(sep)
RECURSIVE Join(_, _)
Join(parts, sep) ==
    IF parts = <<>> THEN <<>>
    ELSE IF Len(parts) = 1 THEN parts[1]
    ELSE parts[1] \o <<sep>> \o Join(Tail(parts), sep)

\* String.prototype.toLowerCase, token by token.
LowerWord(t) ==
    CASE t \in {"User-agent", "USER-AGENT", "User-Agent"} -> "user-agent"
      [] t \in {"Disallow", "DISALLOW"} -> "disallow"
      [] t \in {"Allow", "ALLOW"} -> "allow"
      [] t \in {"Sitemap", "SITEMAP"} -> "sitemap"
      [] t = "Crawl-delay" -> "crawl-delay"
      [] t = "Googlebot" -> "googlebot"
      [] OTHER -> t

\* The directive compared as written.
ToLowerCaseSkipped(s) == s

ToLowerCase(s) == [i \in 1..Len(s) |-> LowerWord(s[i])]

\* The loop over the lines, with the current user agent.
RECURSIVE ParseLines(_, _)
ParseLines(lines, currentUserAgent) ==
    IF lines = <<>> THEN <<>>
    ELSE LET trimmed == Trim(lines[1])
             parts == Split(trimmed, ":")
             directive == parts[1]
             path == Trim(Join(Tail(parts), ":"))
         IN  IF trimmed = <<>> \/ StartsWith(trimmed, "#")
               THEN ParseLines(Tail(lines), currentUserAgent)
             ELSE IF ToLowerCase(directive) = <<"user-agent">>
               THEN ParseLines(Tail(lines), path)
             ELSE IF ToLowerCase(directive) \in {<<"allow">>, <<"disallow">>, <<"sitemap">>}
               THEN <<[userAgent |-> currentUserAgent,
                       directive |-> ToLowerCase(directive),
                       path |-> path]>> \o ParseLines(Tail(lines), currentUserAgent)
             ELSE ParseLines(Tail(lines), currentUserAgent)

parseRobotsTxt(content) ==
    IF ~Truthy(content) THEN <<>>
    ELSE ParseLines(Split(content, "\n"), <<"*">>)

-----------------------------------------------------------------------------
(* calculateScore                                                          *)

\* The denominator of the normalisation.
MaxPoints == 70

Tally(score, issues, warnings, passed) ==
    [score |-> score, issues |-> issues, warnings |-> warnings, passed |-> passed]

\* The lower bound of the title range taken as exclusive.
TitleRuleExclusive(data) ==
    IF Truthy(data.metaTags.title)
      THEN IF data.metaTags.titleLength > 50 /\ data.metaTags.titleLength <= 60
             THEN Tally(10, 0, 0, 1)
             ELSE Tally(5, 0, 1, 0)
      ELSE Tally(0, 1, 0, 0)

\* Title (10 points)
TitleRule(data) ==
    IF Truthy(data.metaTags.title)
      THEN IF data.metaTags.titleLength >= 50 /\ data.metaTags.titleLength <= 60
             THEN Tally(10, 0, 0, 1)
             ELSE Tally(5, 0, 1, 0)
      ELSE Tally(0, 1, 0, 0)

\* Description (10 points)
DescriptionRule(data) ==
    IF Truthy(data.metaTags.description)
      THEN IF data.metaTags.descriptionLength >= 150
                /\ data.metaTags.descriptionLength <= 160
             THEN Tally(10, 0, 0, 1)
             ELSE Tally(5, 0, 1, 0)
      ELSE Tally(0, 1, 0, 0)

\* Canonical (5 points)
CanonicalRule(data) ==
    IF Truthy(data.metaTags.canonical)
      THEN IF data.metaTags.canonicalMatches
             THEN Tally(5, 0, 0, 1)
             ELSE Tally(0, 0, 1, 0)
      ELSE Tally(0, 0, 1, 0)

\* Robots (5 points)
RobotsRule(data) ==
    IF Truthy(data.metaTags.robots) /\ data.metaTags.robotsValid
      THEN Tally(5, 0, 0, 1)
      ELSE Tally(0, 0, 1, 0)

\* HTML Lang (5 points)
HtmlLangRule(data) ==
    IF Truthy(data.metaTags.htmlLang) THEN Tally(5, 0, 0, 1) ELSE Tally(0, 0, 1, 0)

\* Schema (15 points)
SchemaRule(data) ==
    IF data.schema.found THEN Tally(15, 0, 0, 1) ELSE Tally(0, 1, 0, 0)

\* Robots.txt (5 points)
RobotsTxtRule(data) ==
    IF data.robotsTxt.found THEN Tally(5, 0, 0, 1) ELSE Tally(0, 0, 1, 0)

\* One issue for the broken links, however many there are.
BrokenLinksRuleOneIssue(data) ==
    IF Len(data.links.broken) = 0 THEN Tally(10, 0, 0, 1) ELSE Tally(0, 1, 0, 0)

\* The broken-link count subtracted from issues.
BrokenLinksRuleSubtract(data) ==
    IF Len(data.links.broken) = 0
      THEN Tally(10, 0, 0, 1)
      ELSE Tally(0, 0 - Len(data.links.broken), 0, 0)

\* Broken links (10 points)
BrokenLinksRule(data) ==
    IF Len(data.links.broken) = 0
      THEN Tally(10, 0, 0, 1)
      ELSE Tally(0, Len(data.links.broken), 0, 0)

\* Breadcrumbs (5 points)
BreadcrumbsRule(data) ==
    IF data.breadcrumbs.found THEN Tally(5, 0, 0, 1) ELSE Tally(0, 0, 1, 0)

\* The nine rules in the order the code applies them.
Rules(data) ==
    <<TitleRule(data), DescriptionRule(data), CanonicalRule(data), RobotsRule(data),
      HtmlLangRule(data), SchemaRule(data), RobotsTxtRule(data),
      BrokenLinksRule(data), BreadcrumbsRule(data)>>

\* The running totals after the first n rules.
RECURSIVE Accumulate(_, _)
Accumulate(rules, n) ==
    IF n = 0 THEN Tally(0, 0, 0, 0)
    ELSE LET acc == Accumulate(rules, n - 1)
         IN  Tally(acc.score + rules[n].score, acc.issues + rules[n].issues,
                   acc.warnings + rules[n].warnings, acc.passed + rules[n].passed)

\* Math.floor in the place of Math.round.
NormalizedScoreFloor(score) == (100 * score) \div MaxPoints

\* Math.round(score / 70 * 100) for score >= 0.  100 * score / 70 is never
\* half-way between two integers (that needs 20 * score = 7 * odd), and is at
\* least 1/14 away from it, so the floating-point result rounds as the exact one.
NormalizedScore(score) == (2 * 100 * score + MaxPoints) \div (2 * MaxPoints)

\* Math.max(0, Math.min(100, normalizedScore))
Clamp(n) == Max(0, Min(100, n))

calculateScore(data) ==
    LET total == Accumulate(Rules(data), 9)
    IN  Tally(Clamp(NormalizedScore(total.score)), total.issues, total.warnings,
              total.passed)

NoScores == Tally(0, 0, 0, 0)

\* The argument analyzeWebsite gives calculateScore.
AnalysisData ==
    [metaTags |-> metaTags, schema |-> schema, breadcrumbs |-> breadcrumbs,
     robotsTxt |-> robotsTxt, links |-> links]

-----------------------------------------------------------------------------
(* fetchPage, fetchRobotsTxt, detectAmpUrl, compareAmpAndRegular           *)

NoPerformance == [loadTime |-> 0, pageSize |-> 0, redirects |-> 0, ssl |-> FALSE]

\* A fetch that has not returned a page.
NoFetch == [ok |-> FALSE, error |-> "", html |-> NoDoc, performance |-> NoPerformance]

\* fetchPage without the test of the status.
fetchPageAnyStatus(target, outcome) ==
    IF outcome.transport
      THEN [ok |-> FALSE, error |-> "Failed to fetch page: transport", html |-> NoDoc,
            performance |-> NoPerformance]
    ELSE [ok |-> TRUE, error |-> "", html |-> outcome.body,
          performance |->
              [loadTime |-> outcome.loadTime,
               pageSize |-> IF outcome.contentLength >= 0
                              THEN outcome.contentLength ELSE outcome.body.size,
               redirects |-> IF outcome.redirected THEN 1 ELSE 0,
               ssl |-> Len(target) >= 2 /\ target[1] = "https:" /\ target[2] = "//"]]

\* fetchPage(target) for one outcome of the GET.
fetchPage(target, outcome) ==
    IF outcome.transport
      THEN [ok |-> FALSE, error |-> "Failed to fetch page: transport", html |-> NoDoc,
            performance |-> NoPerformance]
    ELSE IF outcome.status >= 400
      THEN [ok |-> FALSE, error |-> "Failed to fetch page: HTTP status", html |-> NoDoc,
            performance |-> NoPerformance]
    ELSE [ok |-> TRUE, error |-> "", html |-> outcome.body,
          performance |->
              [loadTime |-> outcome.loadTime,
               pageSize |-> IF outcome.contentLength >= 0
                              THEN outcome.contentLength ELSE outcome.body.size,
               redirects |-> IF outcome.redirected THEN 1 ELSE 0,
               ssl |-> Len(target) >= 2 /\ target[1] = "https:" /\ target[2] = "//"]]

\* A robots.txt response: the status and the body text.
RobotsResponse(status, body) ==
    [transport |-> FALSE, status |-> status, message |-> Null, body |-> body]

RobotsFailure(msg) ==
    [transport |-> TRUE, status |-> 0, message |-> <<msg>>, body |-> Null]

\* fetchRobotsTxt with every status accepted.
fetchRobotsTxtAnyStatus(outcome) ==
    IF outcome.transport THEN Null ELSE outcome.body

\* fetchRobotsTxt: axios.get with the default validateStatus, which rejects
\* every status outside 200..299; any rejection gives null.
fetchRobotsTxt(outcome) ==
    IF outcome.transport \/ outcome.status < 200 \/ outcome.status >= 300
      THEN Null
      ELSE outcome.body

\* The robotsTxt facts analyzeWebsite builds from the fetched content.
RobotsTxtFacts(robotsTxtContent) ==
    [found |-> Truthy(robotsTxtContent),
     content |-> robotsTxtContent,
     rules |-> IF Truthy(robotsTxtContent) THEN parseRobotsTxt(robotsTxtContent) ELSE <<>>]

\* The robots.txt facts of a side of the comparison taken as found.
RobotsTxtTakenAsFound == [found |-> TRUE, content |-> Null, rules |-> <<>>]

\* { found: false, content: null, rules: [] }
NoRobotsTxt == [found |-> FALSE, content |-> Null, rules |-> <<>>]

\* new URL('/robots.txt', baseUrl).toString()
RobotsUrl(baseUrl) == Origin(ParseAbsolute(baseUrl).url) \o <<"/robots.txt">>

\* normalizedUrl
NormalizeUrl(u) ==
    IF Len(u) > 0 /\ u[1] \in {"http:", "https:"} THEN u ELSE <<"https:", "//">> \o u

\* The candidates with the first two in the other order.
AmpPatternsSwapped(originalUrl) ==
    LET u == ParseAbsolute(originalUrl).url IN
    << Origin(u) \o Pathname(u) \o <<"/amp", "/">>,
       Origin(u) \o <<"/amp">> \o Pathname(u),
       Origin(u) \o Pathname(u) \o <<"?amp=1">>,
       Origin(u) \o <<"/amp">> \o Pathname(u) \o Search(u) >>

\* The candidate AMP URLs of detectAmpUrl, in the order they are probed.
AmpPatterns(originalUrl) ==
    LET u == ParseAbsolute(originalUrl).url IN
    << Origin(u) \o <<"/amp">> \o Pathname(u),
       Origin(u) \o Pathname(u) \o <<"/amp", "/">>,
       Origin(u) \o Pathname(u) \o <<"?amp=1">>,
       Origin(u) \o <<"/amp">> \o Pathname(u) \o Search(u) >>

\* isAmpPage giving way to an amphtml link.
isAmpPageUnlessLinked(doc) == doc.rootAmp /\ ~Truthy(doc.amphtml)

\* isAmpPage
isAmpPage(doc) == doc.rootAmp

\* One side of the comparison scored with the robots.txt and the link facts
\* of the primary analysis.
CompareSideOfPrimary(target, fetched) ==
    [scores |-> calculateScore(
                    [metaTags |-> extractMetaTags(fetched.html, target),
                     schema |-> extractSchema(fetched.html),
                     breadcrumbs |-> extractBreadcrumbs(fetched.html),
                     robotsTxt |-> robotsTxt,
                     links |-> links]),
     schema |-> extractSchema(fetched.html),
     performance |-> fetched.performance]

\* One side of the comparison: the score of a re-fetched page, with robots.txt
\* taken as not found and no links.
CompareSide(target, fetched) ==
    [scores |-> calculateScore(
                    [metaTags |-> extractMetaTags(fetched.html, target),
                     schema |-> extractSchema(fetched.html),
                     breadcrumbs |-> extractBreadcrumbs(fetched.html),
                     robotsTxt |-> NoRobotsTxt,
                     links |-> NoLinks]),
     schema |-> extractSchema(fetched.html),
     performance |-> fetched.performance]

\* The impact with the two sides taken the other way round.
ImpactOfRegular(positive) == IF positive THEN "negative" ELSE "positive"

Impact(positive) == IF positive THEN "positive" ELSE "negative"

\* Math.round(pageSize / 1024)
RoundKB(size) == (2 * size + 1024) \div 2048

PresentOrMissing(found) == IF found THEN "Present" ELSE "Missing"

\* The three differences, a and r being the two sides analysed.
Differences(a, r) ==
    << [category |-> "Load Time",
        ampValue |-> <<a.performance.loadTime, "ms">>,
        regularValue |-> <<r.performance.loadTime, "ms">>,
        impact |-> Impact(a.performance.loadTime < r.performance.loadTime)],
       [category |-> "Page Size",
        ampValue |-> <<RoundKB(a.performance.pageSize), "KB">>,
        regularValue |-> <<RoundKB(r.performance.pageSize), "KB">>,
        impact |-> Impact(a.performance.pageSize < r.performance.pageSize)],
       [category |-> "Schema Markup",
        ampValue |-> PresentOrMissing(a.schema.found),
        regularValue |-> PresentOrMissing(r.schema.found),
        impact |-> IF a.schema.found = r.schema.found THEN "neutral"
                   ELSE Impact(a.schema.found)] >>

\* The value compareAmpAndRegular returns.
Comparison(a, r) ==
    [ampScore |-> a.scores.score,
     regularScore |-> r.scores.score,
     ampIssues |-> a.scores.issues,
     regularIssues |-> r.scores.issues,
     differences |-> Differences(a, r)]

\* compareAmpAndRegular for the outcomes of its two fetches.
compareAmpAndRegular(amp, regular, ampOutcome, regularOutcome) ==
    LET ampFetched == fetchPage(amp, ampOutcome)
        regularFetched == fetchPage(regular, regularOutcome)
    IN  IF ~ampFetched.ok \/ ~regularFetched.ok
          THEN [ok |-> FALSE, value |-> <<>>]
          ELSE [ok |-> TRUE,
                value |-> <<Comparison(CompareSide(amp, ampFetched),
                                       CompareSide(regular, regularFetched))>>]

-----------------------------------------------------------------------------
(* The environment: what the analyzed site and the network can answer      *)

\* Most anchors of the enumerated small pages.
MaxAnchors == 2

\* Most lines of the enumerated robots.txt texts.
MaxLines == 3

BlogUrl == <<"https:", "//", "example.com", "/blog">>

\* The url arguments of analyzeWebsite.
InputUrls == {BlogUrl, <<"example.com", "/blog", "?id=1">>}

InvalidHref == <<"http:", "//", "[">>

\* Anchors of the pages of the pipeline.
AboutAnchor == Anchor(<<"/about">>, 1, Null)

OtherAnchor == Anchor(<<"https:", "//", "other.com">>, 2, <<"nofollow">>)

TopAnchor == Anchor(<<"#", "top">>, 3, Null)

ArticleBody(rootAmp, amphtml, canonical, anchors) ==
    Doc(rootAmp, amphtml, canonical, Text(55), <<>>, <<"index", ",", " ", "follow">>,
        <<"en">>, <<"Article">>, 0, FALSE, anchors, 2048)

\* The pages the analyzed site may serve at the analyzed URL.
SitePages ==
    {ArticleBody(rootAmp, amphtml, canonical, anchors) :
        rootAmp \in BOOLEAN,
        amphtml \in {Null, <<"/amp", "/blog">>, InvalidHref},
        canonical \in {Null, <<"/blog">>, <<"/post">>, InvalidHref},
        anchors \in {<<>>, <<TopAnchor, OtherAnchor>>}}

NotFoundDoc == Doc(FALSE, Null, Null, Text(3), <<>>, Null, Null, <<>>, 0, FALSE, <<>>, 1)

\* Outcomes of the GET of the analyzed page.
PageOutcomes(doc) ==
    {PageFailure("timeout of 15000ms exceeded"),
     PageResponse(200, doc, 2, -1, FALSE),
     PageResponse(404, NotFoundDoc, 1, 1, FALSE),
     PageResponse(500, NotFoundDoc, 1, -1, FALSE)}

\* Outcomes of the HEAD probe of an AMP candidate.
AmpProbeOutcomes ==
    {Response(200), Response(404), TransportFailure("timeout of 3000ms exceeded")}

ExampleRobots ==
    <<"User-agent", ":", " ", "*", "\n", "Disallow", ":", " ", "/admin", "\n",
      "Sitemap", ":", " ", "/sitemap.xml">>

\* The robots.txt texts of the sites of the pipeline.
SiteRobotsFiles == {<<>>, ExampleRobots}

\* Outcomes of the GET of robots.txt.
RobotsOutcomes(file) ==
    {RobotsFailure("timeout of 5000ms exceeded"),
     RobotsResponse(404, <<"Not", " ", "Found">>),
     RobotsResponse(200, file)}

SlimDoc == Doc(TRUE, Null, Null, Text(55), Text(150), Null, <<"en">>, <<>>, 0, FALSE, <<>>, 512)

FullDoc == ArticleBody(FALSE, Null, <<"/post">>, <<>>)

\* A page at /post that satisfies every rule about the page itself.
RichDoc ==
    Doc(FALSE, Null, <<"/post">>, Text(55), Text(150), <<"index", ",", " ", "follow">>,
        <<"en">>, <<"Article", "BreadcrumbList">>, 0, FALSE, <<>>, 3072)

\* Outcomes of each of the two GETs of the comparison.
CompareOutcomes ==
    {PageFailure("timeout of 15000ms exceeded"),
     PageResponse(404, NotFoundDoc, 1, -1, FALSE),
     PageResponse(200, SlimDoc, 1, -1, FALSE),
     PageResponse(200, FullDoc, 2, 4096, TRUE),
     PageResponse(200, RichDoc, 2, -1, FALSE)}

-----------------------------------------------------------------------------
(* analyzeWebsite, step by step                                            *)

\* The error analyzeWebsite rethrows.
AnalysisFailed(message) == "SEO analysis failed: " \o message

\* The fetch followed at once by the extractors, the AMP resolution left out.
FetchPageThenExtract ==
    /\ pc = "Idle"
    /\ \E outcome \in PageOutcomes(page) :
        LET normalizedUrl == NormalizeUrl(url)
            fetched == fetchPage(normalizedUrl, outcome)
        IN  /\ url' = normalizedUrl
            /\ requests' = Append(requests, Request("GET", "page", normalizedUrl, outcome))
            /\ IF fetched.ok
                 THEN /\ html' = fetched.html
                      /\ performance' = fetched.performance
                      /\ pc' = "Extract"
                      /\ failure' = failure
                 ELSE /\ pc' = "Failed"
                      /\ failure' = AnalysisFailed(fetched.error)
                      /\ UNCHANGED <<html, performance>>
    /\ UNCHANGED <<page, robotsFile, liveness, isAmp, ampUrl, regularUrl, metaTags, schema,
                   breadcrumbs, allLinks, linksToCheck, broken, links, robotsTxt,
                   scores, ampComparison, ampPatterns>>
    /\ UNCHANGED <<ampData, regularData, storageVars, serviceVars>>

\* Normalize the URL and fetch the page.
FetchPage ==
    /\ pc = "Idle"
    /\ \E outcome \in PageOutcomes(page) :
        LET normalizedUrl == NormalizeUrl(url)
            fetched == fetchPage(normalizedUrl, outcome)
        IN  /\ url' = normalizedUrl
            /\ requests' = Append(requests, Request("GET", "page", normalizedUrl, outcome))
            /\ IF fetched.ok
                 THEN /\ html' = fetched.html
                      /\ performance' = fetched.performance
                      /\ pc' = "ResolveAmp"
                      /\ failure' = failure
                 ELSE /\ pc' = "Failed"
                      /\ failure' = AnalysisFailed(fetched.error)
                      /\ UNCHANGED <<html, performance>>
    /\ UNCHANGED <<page, robotsFile, liveness, isAmp, ampUrl, regularUrl, metaTags, schema,
                   breadcrumbs, allLinks, linksToCheck, broken, links, robotsTxt,
                   scores, ampComparison, ampPatterns>>
    /\ UNCHANGED <<ampData, regularData, storageVars, serviceVars>>

\* The resolution with the analyzed URL standing in for the regular version
\* of an AMP page without a canonical link.
ResolveAmpWithFallback ==
    /\ pc = "ResolveAmp"
    /\ isAmp' = isAmpPage(html)
    /\ LET canonicalLink == html.canonical
           ampLink == html.amphtml
           target == IF isAmpPage(html) THEN canonicalLink ELSE ampLink
           resolved == ParseURL(target, url)
       IN  IF Truthy(target) /\ ~resolved.ok
             THEN \* new URL(...) throws
                  /\ pc' = "Failed"
                  /\ failure' = AnalysisFailed("Invalid URL")
                  /\ UNCHANGED <<ampUrl, regularUrl, ampPatterns>>
           ELSE IF isAmpPage(html)
             THEN /\ ampUrl' = url
                  /\ regularUrl' = IF Truthy(canonicalLink) THEN Href(resolved.url) ELSE url
                  /\ pc' = "Extract"
                  /\ UNCHANGED <<failure, ampPatterns>>
           ELSE IF Truthy(ampLink)
             THEN /\ regularUrl' = url
                  /\ ampUrl' = Href(resolved.url)
                  /\ pc' = "Extract"
                  /\ UNCHANGED <<failure, ampPatterns>>
           ELSE /\ regularUrl' = url
                /\ ampUrl' = Null
                /\ ampPatterns' = AmpPatterns(url)
                /\ pc' = "AmpProbe"
                /\ UNCHANGED failure
    /\ UNCHANGED <<page, robotsFile, liveness, url, html, performance, metaTags, schema,
                   breadcrumbs, allLinks, linksToCheck, broken, links, robotsTxt,
                   scores, ampComparison, requests>>
    /\ UNCHANGED <<ampData, regularData, storageVars, serviceVars>>

\* isAmpPage, then the resolution of ampUrl and regularUrl up to the first
\* probe of detectAmpUrl.
ResolveAmp ==
    /\ pc = "ResolveAmp"
    /\ isAmp' = isAmpPage(html)
    /\ LET canonicalLink == html.canonical
           ampLink == html.amphtml
           target == IF isAmpPage(html) THEN canonicalLink ELSE ampLink
           resolved == ParseURL(target, url)
       IN  IF Truthy(target) /\ ~resolved.ok
             THEN \* new URL(...) throws
                  /\ pc' = "Failed"
                  /\ failure' = AnalysisFailed("Invalid URL")
                  /\ UNCHANGED <<ampUrl, regularUrl, ampPatterns>>
           ELSE IF isAmpPage(html)
             THEN /\ ampUrl' = url
                  /\ regularUrl' = IF Truthy(canonicalLink) THEN Href(resolved.url) ELSE Null
                  /\ pc' = "Extract"
                  /\ UNCHANGED <<failure, ampPatterns>>
           ELSE IF Truthy(ampLink)
             THEN /\ regularUrl' = url
                  /\ ampUrl' = Href(resolved.url)
                  /\ pc' = "Extract"
                  /\ UNCHANGED <<failure, ampPatterns>>
           ELSE /\ regularUrl' = url
                /\ ampUrl' = Null
                /\ ampPatterns' = AmpPatterns(url)
                /\ pc' = "AmpProbe"
                /\ UNCHANGED failure
    /\ UNCHANGED <<page, robotsFile, liveness, url, html, performance, metaTags, schema,
                   breadcrumbs, allLinks, linksToCheck, broken, links, robotsTxt,
                   scores, ampComparison, requests>>
    /\ UNCHANGED <<ampData, regularData, storageVars, serviceVars>>

\* One iteration of the loop of detectAmpUrl: the HEAD probe of the next
\* candidate, and the return when it answers 200 or was the last one.
AmpProbe ==
    /\ pc = "AmpProbe"
    /\ ampPatterns # <<>>
    /\ \E outcome \in AmpProbeOutcomes :
        /\ requests' = Append(requests,
                              Request("HEAD", "amp", Head(ampPatterns), outcome))
        /\ ampPatterns' = Tail(ampPatterns)
        /\ IF ~outcome.transport /\ outcome.status = 200
             THEN ampUrl' = Head(ampPatterns) /\ pc' = "Extract"
             ELSE /\ ampUrl' = Null
                  /\ pc' = IF Tail(ampPatterns) = <<>> THEN "Extract" ELSE "AmpProbe"
    /\ UNCHANGED <<failure, page, robotsFile, liveness, url, html, performance, isAmp,
                   regularUrl, metaTags, schema, breadcrumbs, allLinks, linksToCheck,
                   broken, links, robotsTxt, scores, ampComparison>>
    /\ UNCHANGED <<ampData, regularData, storageVars, serviceVars>>

\* The signal extractors of the main page.
Extract ==
    /\ pc = "Extract"
    /\ metaTags' = extractMetaTags(html, url)
    /\ schema' = extractSchema(html)
    /\ breadcrumbs' = extractBreadcrumbs(html)
    /\ pc' = "analyzeLinks"
    /\ UNCHANGED <<failure, page, robotsFile, liveness, url, html, performance, isAmp, ampUrl,
                   regularUrl, allLinks, linksToCheck, broken, links, robotsTxt,
                   scores, ampComparison, ampPatterns, requests>>
    /\ UNCHANGED <<ampData, regularData, storageVars, serviceVars>>

\* analyzeLinks up to its first probe: the links collected and the check list.
StartLinks ==
    /\ pc = "analyzeLinks"
    /\ allLinks' = CollectLinks(html.anchors, url)
    /\ linksToCheck' = CheckList(CollectLinks(html.anchors, url))
    /\ broken' = <<>>
    /\ pc' = "checkLinks"
    /\ UNCHANGED <<failure, page, robotsFile, liveness, url, html, performance, isAmp, ampUrl,
                   regularUrl, metaTags, schema, breadcrumbs, links, robotsTxt,
                   scores, ampComparison, ampPatterns, requests>>
    /\ UNCHANGED <<ampData, regularData, storageVars, serviceVars>>

\* One iteration of the probing loop of analyzeLinks.
CheckLink ==
    /\ pc = "checkLinks"
    /\ linksToCheck # <<>>
    /\ LET link == Head(linksToCheck)
            outcome == liveness[link.url]
            result == checkLinkStatus(outcome)
        IN  /\ requests' = Append(requests, Request("HEAD", "link", link.url, outcome))
            /\ broken' = IF IsBroken(result)
                           THEN Append(broken, [url |-> link.url, text |-> link.text,
                                                status |-> result.status,
                                                error |-> result.error])
                           ELSE broken
    /\ linksToCheck' = Tail(linksToCheck)
    /\ UNCHANGED <<pc, failure, page, robotsFile, liveness, url, html, performance, isAmp,
                   ampUrl, regularUrl, metaTags, schema, breadcrumbs, allLinks, links,
                   robotsTxt, scores, ampComparison, ampPatterns>>
    /\ UNCHANGED <<ampData, regularData, storageVars, serviceVars>>

\* The return of analyzeLinks.
LinksReturn ==
    /\ pc = "checkLinks"
    /\ linksToCheck = <<>>
    /\ links' = LinkFacts(allLinks, broken)
    /\ pc' = "fetchRobotsTxt"
    /\ UNCHANGED <<failure, page, robotsFile, liveness, url, html, performance, isAmp, ampUrl,
                   regularUrl, metaTags, schema, breadcrumbs, allLinks, linksToCheck,
                   broken, robotsTxt, scores, ampComparison, ampPatterns, requests>>
    /\ UNCHANGED <<ampData, regularData, storageVars, serviceVars>>

\* fetchRobotsTxt and the robotsTxt facts.
FetchRobots ==
    /\ pc = "fetchRobotsTxt"
    /\ \E outcome \in RobotsOutcomes(robotsFile) :
        /\ requests' = Append(requests, Request("GET", "robots", RobotsUrl(url), outcome))
        /\ robotsTxt' = RobotsTxtFacts(fetchRobotsTxt(outcome))
    /\ pc' = "calculateScore"
    /\ UNCHANGED <<failure, page, robotsFile, liveness, url, html, performance, isAmp, ampUrl,
                   regularUrl, metaTags, schema, breadcrumbs, allLinks, linksToCheck,
                   broken, links, scores, ampComparison, ampPatterns>>
    /\ UNCHANGED <<ampData, regularData, storageVars, serviceVars>>

\* The test without the comparison of the two URLs.
ShouldCompareAnyTwo(amp, regular) == Truthy(amp) /\ Truthy(regular)

\* The test that starts the comparison.
ShouldCompare(amp, regular) == Truthy(amp) /\ Truthy(regular) /\ amp # regular

\* calculateScore of the main page, and the test that starts the comparison.
Score ==
    /\ pc = "calculateScore"
    /\ scores' = calculateScore(AnalysisData)
    /\ pc' = IF ShouldCompare(ampUrl, regularUrl) THEN "compareAmpAndRegular" ELSE "Done"
    /\ UNCHANGED <<failure, page, robotsFile, liveness, url, html, performance, isAmp, ampUrl,
                   regularUrl, metaTags, schema, breadcrumbs, allLinks, linksToCheck,
                   broken, links, robotsTxt, ampComparison, ampPatterns, requests>>
    /\ UNCHANGED <<ampData, regularData, storageVars, serviceVars>>

\* The comparison without the try/catch around it: its failure ends the run.
CompareUncaught ==
    /\ pc = "compareAmpAndRegular"
    /\ \E ampOutcome \in CompareOutcomes, regularOutcome \in CompareOutcomes :
        LET compared == compareAmpAndRegular(ampUrl, regularUrl, ampOutcome, regularOutcome)
        IN  /\ requests' = requests \o
                   <<Request("GET", "compare", ampUrl, ampOutcome),
                     Request("GET", "compare", regularUrl, regularOutcome)>>
            /\ ampComparison' = IF compared.ok THEN compared.value ELSE <<>>
            /\ pc' = IF compared.ok THEN "Done" ELSE "Failed"
            /\ failure' = IF compared.ok THEN failure
                           ELSE AnalysisFailed("AMP comparison failed")
            /\ ampData' = IF compared.ok THEN fetchPage(ampUrl, ampOutcome) ELSE ampData
            /\ regularData' = IF compared.ok THEN fetchPage(regularUrl, regularOutcome)
                                ELSE regularData
    /\ UNCHANGED <<page, robotsFile, liveness, url, html, performance, isAmp, ampUrl,
                   regularUrl, metaTags, schema, breadcrumbs, allLinks, linksToCheck,
                   broken, links, robotsTxt, scores, ampPatterns>>
    /\ UNCHANGED <<storageVars, serviceVars>>

\* compareAmpAndRegular; its failure is caught and leaves ampComparison null.
Compare ==
    /\ pc = "compareAmpAndRegular"
    /\ \E ampOutcome \in CompareOutcomes, regularOutcome \in CompareOutcomes :
        LET compared == compareAmpAndRegular(ampUrl, regularUrl, ampOutcome, regularOutcome)
        IN  /\ requests' = requests \o
                   <<Request("GET", "compare", ampUrl, ampOutcome),
                     Request("GET", "compare", regularUrl, regularOutcome)>>
            /\ ampComparison' = IF compared.ok THEN compared.value ELSE <<>>
            /\ ampData' = IF compared.ok THEN fetchPage(ampUrl, ampOutcome) ELSE ampData
            /\ regularData' = IF compared.ok THEN fetchPage(regularUrl, regularOutcome)
                                ELSE regularData
    /\ pc' = "Done"
    /\ UNCHANGED <<failure, page, robotsFile, liveness, url, html, performance, isAmp, ampUrl,
                   regularUrl, metaTags, schema, breadcrumbs, allLinks, linksToCheck,
                   broken, links, robotsTxt, scores, ampPatterns>>
    /\ UNCHANGED <<storageVars, serviceVars>>

\* A call of checkScheduledScans that passed the flag and waits at an await.
Sweep(at) == [at |-> at]

\* getAllActiveScans: the placeholder returns no scan.
getAllActiveScans == <<>>

\* new ScheduledScannerService(): startScheduler sets the timer and makes
\* the initial check, which takes the flag and waits for the list of scans.
SchedulerStarted ==
    /\ isRunning = TRUE
    /\ sweeps = <<Sweep("getAllActiveScans")>>
    /\ ticks = 0
    /\ skipped = 0
    /\ ended = 0

\* The scheduled scans and alerts of a new MemStorage and of an empty
\* database.
NoScans ==
    /\ scheduledScans = <<>>
    /\ currentScanId = 1
    /\ dbScheduledScans = <<>>
    /\ dbScanIdSeq = 1
    /\ calls = <<>>

NoAlerts ==
    /\ scanAlerts = <<>>
    /\ dbScanAlerts = <<>>

\* new MemStorage()
Constructed ==
    /\ seoAnalyses = <<>>
    /\ currentAnalysisId = 1
    /\ creations = <<>>

\* The state of a run before its first step, apart from pc and the inputs.
Fresh ==
    /\ SchedulerStarted
    /\ NoScans
    /\ NoAlerts
    /\ outstanding = <<>>
    /\ reqBody = [url |-> Null]
    /\ responses = <<>>
    /\ ampData = NoFetch
    /\ regularData = NoFetch
    /\ Constructed
    /\ failure = ""
    /\ performance = NoPerformance
    /\ isAmp = FALSE
    /\ ampUrl = Null
    /\ regularUrl = Null
    /\ metaTags = NoMetaTags
    /\ schema = extractSchema(NoDoc)
    /\ breadcrumbs = extractBreadcrumbs(NoDoc)
    /\ allLinks = <<>>
    /\ linksToCheck = <<>>
    /\ broken = <<>>
    /\ links = NoLinks
    /\ robotsTxt = NoRobotsTxt
    /\ scores = NoScores
    /\ ampComparison = <<>>
    /\ ampPatterns = <<>>
    /\ requests = <<>>

\* The ways the links of a page can answer a HEAD probe.
Liveness(doc, baseUrl) ==
    LET all == CollectLinks(doc.anchors, baseUrl)
    IN  [{all[i].url : i \in 1..Len(all)} -> ProbeOutcomes]

Init ==
    /\ pc = "Idle"
    /\ url \in InputUrls
    /\ page \in SitePages
    /\ robotsFile \in SiteRobotsFiles
    /\ liveness \in Liveness(page, NormalizeUrl(url))
    /\ html = NoDoc
    /\ Fresh

Next ==
    \/ FetchPage
    \/ ResolveAmp
    \/ AmpProbe
    \/ Extract
    \/ StartLinks
    \/ CheckLink
    \/ LinksReturn
    \/ FetchRobots
    \/ Score
    \/ Compare

Spec == Init /\ [][Next]_vars

-----------------------------------------------------------------------------
(* analyzeLinks on its own: every page of a family of anchor lists         *)

\* The href attributes of the enumerated pages (Null: no href attribute).
LinkHrefs ==
    {Null, <<>>, <<"#", "top">>, <<"mailto:", "a@example.com">>, <<"tel:", "123">>,
     <<"/about">>, <<"contact">>, <<"https:", "//", "other.com">>,
     <<"https:", "//", "EXAMPLE.COM", "/contact">>, <<"//", "other.com", "/post">>,
     InvalidHref}

RelOf(i) == IF i % 2 = 0 THEN <<"nofollow">> ELSE Null

\* Every anchor list of n anchors over LinkHrefs.
RECURSIVE AnchorLists(_)
AnchorLists(n) ==
    IF n = 0 THEN {<<>>}
    ELSE {Append(l, Anchor(h, n, RelOf(n))) : l \in AnchorLists(n - 1), h \in LinkHrefs}

\* A page of n anchors, internal except every k-th one, which is external.
Interleaved(n, k) ==
    [i \in 1..n |->
        IF i % k = 0
          THEN Anchor(<<"https:", "//", "other.com", "/post">>, i, RelOf(i))
          ELSE Anchor(IF i % 2 = 0 THEN <<"/about">> ELSE <<"contact">>, i, Null)]

\* A page of e external anchors followed by n internal ones.
ExternalFirst(e, n) ==
    [i \in 1..(e + n) |->
        IF i <= e
          THEN Anchor(<<"https:", "//", "other.com">>, i, RelOf(i))
          ELSE Anchor(<<"/about">>, i, Null)]

\* The page of the classification example.
ExampleAnchors ==
    <<Anchor(<<"/about">>, 1, Null), Anchor(<<"https:", "//", "other.com">>, 2, Null),
      Anchor(<<"#", "top">>, 3, Null)>>

\* 30 internal and 15 external links; 15 internal and 8 external; 4 internal
\* and 12 external.
LinkAnchorLists ==
    UNION {AnchorLists(n) : n \in 0..MaxAnchors}
      \cup {ExampleAnchors, Interleaved(45, 3), ExternalFirst(8, 15), ExternalFirst(12, 4)}

InitLinks ==
    /\ pc = "analyzeLinks"
    /\ url = BlogUrl
    /\ page \in {ArticleBody(FALSE, Null, Null, anchors) : anchors \in LinkAnchorLists}
    /\ html = page
    /\ robotsFile = <<>>
    /\ liveness \in Liveness(page, url)
    /\ Fresh

NextLinks ==
    \/ StartLinks
    \/ CheckLink
    \/ LinksReturn

SpecLinks == InitLinks /\ [][NextLinks]_vars

-----------------------------------------------------------------------------
(* calculateScore on its own: every fact bundle of a family of documents   *)

TitleLengths == {0, 49, 50, 55, 60, 61}

DescriptionLengths == {0, 149, 150, 160, 161}

ScoreDocs ==
    {Doc(FALSE, Null, canonical, Text(t), Text(d), robots, lang, jsonld, 0, aria, <<>>, 1) :
        canonical \in {Null, <<"/blog">>, <<"/post">>},
        t \in TitleLengths, d \in DescriptionLengths,
        robots \in {Null, <<"nofollow">>, <<"index", ",", " ", "follow">>},
        lang \in {Null, <<"en">>},
        jsonld \in {<<>>, <<"Article">>, <<"BreadcrumbList">>},
        aria \in BOOLEAN}

\* n collected internal links whose probes all answered 404.
DeadLinks(n) ==
    [i \in 1..n |-> [url |-> <<"https:", "//", "example.com", "/about">>, text |-> i,
                     isExternal |-> FALSE, nofollow |-> FALSE]]

DeadLinkFacts(n) ==
    LinkFacts(DeadLinks(n),
              [i \in 1..n |-> [url |-> DeadLinks(n)[i].url, text |-> i, status |-> 404,
                               error |-> Null]])

InitScore ==
    /\ pc = "calculateScore"
    /\ url = BlogUrl
    /\ page \in ScoreDocs
    /\ html = page
    /\ robotsFile \in SiteRobotsFiles
    /\ liveness = <<>>
    /\ failure = ""
    /\ performance = NoPerformance
    /\ isAmp = FALSE
    /\ ampUrl = Null
    /\ regularUrl = url
    /\ metaTags = extractMetaTags(html, url)
    /\ schema = extractSchema(html)
    /\ breadcrumbs = extractBreadcrumbs(html)
    /\ allLinks = <<>>
    /\ linksToCheck = <<>>
    /\ broken = <<>>
    /\ links \in {DeadLinkFacts(n) : n \in {0, 1, 2, LinkCheckCap}}
    /\ robotsTxt = RobotsTxtFacts(robotsFile)
    /\ scores = NoScores
    /\ ampComparison = <<>>
    /\ ampPatterns = <<>>
    /\ requests = <<>>
    /\ ampData = NoFetch
    /\ regularData = NoFetch
    /\ Constructed
    /\ SchedulerStarted
    /\ NoScans
    /\ NoAlerts
    /\ outstanding = <<>>
    /\ reqBody = [url |-> Null]
    /\ responses = <<>>

NextScore == Score

SpecScore == InitScore /\ [][NextScore]_vars

-----------------------------------------------------------------------------
(* The robots.txt step on its own: every text of a family of lines         *)

RobotsLines ==
    {<<"User-agent", ":", " ", "*">>,
     <<"Disallow", ":", " ", "/admin">>,
     <<"Sitemap", ":", " ", "/sitemap.xml">>,
     <<"user-agent", ":", "Googlebot">>,
     <<" ", "ALLOW", ":", "/pub", " ", "\r">>,
     <<"#", " ", "Disallow", ":", " ", "/x">>,
     <<>>,
     <<"Crawl-delay", ":", " ", "10">>,
     <<"Sitemap", ":", " ", "https", ":", "//example.com/sitemap.xml">>,
     <<"Disallow", " ", ":", " ", "/x">>,
     <<"Allow">>,
     <<"DISALLOW", ":">>}

\* Every text of n lines over RobotsLines.
RECURSIVE RobotsTexts(_)
RobotsTexts(n) ==
    IF n = 0 THEN {<<>>}
    ELSE IF n = 1 THEN RobotsLines
    ELSE {t \o <<"\n">> \o l : t \in RobotsTexts(n - 1), l \in RobotsLines}

InitRobots ==
    /\ pc = "fetchRobotsTxt"
    /\ url = BlogUrl
    /\ page = NoDoc
    /\ html = page
    /\ robotsFile \in UNION {RobotsTexts(n) : n \in 0..MaxLines}
    /\ liveness = <<>>
    /\ Fresh

NextRobots == FetchRobots

SpecRobots == InitRobots /\ [][NextRobots]_vars

-----------------------------------------------------------------------------
(* extractMetaTags on its own: canonical links of every form               *)

\* The href attributes of the canonical link (Null: no canonical link).
CanonicalHrefs ==
    {Null, <<>>, <<"/blog">>, <<"/post">>, <<"/">>, <<"?id=1">>, <<"#", "top">>,
     <<"/blog", "#", "top">>, <<"/blog", "?id=1">>,
     <<"https:", "//", "example.com">>,
     <<"https:", "//", "example.com", "/blog">>,
     <<"https:", "//", "EXAMPLE.COM", "/blog">>,
     <<"http:", "//", "example.com", "/blog">>,
     <<"https:", "//", "other.com", "/blog">>,
     <<"https:", "//", "example.com", "/blog", "?id=1">>,
     <<"//", "example.com", "/blog">>,
     <<"//", "[">>,
     InvalidHref}

\* The URLs the documents were fetched from.
MetaUrls ==
    {BlogUrl,
     <<"https:", "//", "example.com", "/blog", "?id=1">>,
     <<"https:", "//", "example.com">>,
     <<"https:", "//", "EXAMPLE.COM", "/blog">>,
     <<"http:", "//", "example.com", "/blog">>}

InitMeta ==
    /\ pc = "Extract"
    /\ url \in MetaUrls
    /\ page \in {ArticleBody(FALSE, Null, canonical, <<>>) : canonical \in CanonicalHrefs}
    /\ html = page
    /\ robotsFile = <<>>
    /\ liveness = <<>>
    /\ Fresh

NextMeta == Extract

SpecMeta == InitMeta /\ [][NextMeta]_vars

-----------------------------------------------------------------------------
(* MemStorage: the analyses saved by createSeoAnalysis                     *)

\* Most createSeoAnalysis calls of one behaviour.
MaxAnalyses == 3

\* The urls and the analysisData of the records saved.
StoreUrls == {BlogUrl, <<"https:", "//", "other.com", "/">>}

StoreData == {[overallScore |-> 79], [overallScore |-> 86], [overallScore |-> 100]}

\* createSeoAnalysis without the increment of the id counter.
createSeoAnalysisSameId(insertAnalysis) ==
    LET id == currentAnalysisId
        analysis == [url |-> insertAnalysis.url, analysisData |-> insertAnalysis.analysisData,
                     id |-> id, isAmp |-> FALSE, ampUrl |-> Null, regularUrl |-> Null,
                     score |-> Null, issues |-> Null, warnings |-> Null, passed |-> Null]
    IN  [currentAnalysisId |-> id,
         seoAnalyses |-> [i \in DOMAIN seoAnalyses \cup {id} |->
                             IF i = id THEN analysis ELSE seoAnalyses[i]],
         returned |-> analysis]

\* createSeoAnalysis: the fields after the call and the record returned.
\* createdAt is the wall clock and is left out of the record.
createSeoAnalysis(insertAnalysis) ==
    LET id == currentAnalysisId
        analysis == [url |-> insertAnalysis.url, analysisData |-> insertAnalysis.analysisData,
                     id |-> id, isAmp |-> FALSE, ampUrl |-> Null, regularUrl |-> Null,
                     score |-> Null, issues |-> Null, warnings |-> Null, passed |-> Null]
    IN  [currentAnalysisId |-> id + 1,
         seoAnalyses |-> [i \in DOMAIN seoAnalyses \cup {id} |->
                             IF i = id THEN analysis ELSE seoAnalyses[i]],
         returned |-> analysis]

\* getSeoAnalysis: <<record>>, or <<>> for undefined.
getSeoAnalysis(id) ==
    IF id \in DOMAIN seoAnalyses THEN <<seoAnalyses[id]>> ELSE <<>>

\* Array.from(this.seoAnalyses.values()): the records in insertion order,
\* which is the order of the keys below n.
RECURSIVE SeoAnalysesValues(_)
SeoAnalysesValues(n) ==
    IF n = 0 THEN <<>>
    ELSE SeoAnalysesValues(n - 1)
           \o (IF n \in DOMAIN seoAnalyses THEN <<seoAnalyses[n]>> ELSE <<>>)

getSeoAnalysesByUrl(u) ==
    LET HasUrl(analysis) == analysis.url = u
    IN  SelectSeq(SeoAnalysesValues(currentAnalysisId), HasUrl)

\* A call of createSeoAnalysis.
CreateSeoAnalysis ==
    /\ currentAnalysisId <= MaxAnalyses
    /\ \E u \in StoreUrls, data \in StoreData :
        LET insertAnalysis == [url |-> u, analysisData |-> data]
            after == createSeoAnalysis(insertAnalysis)
        IN  /\ seoAnalyses' = after.seoAnalyses
            /\ currentAnalysisId' = after.currentAnalysisId
            /\ creations' = Append(creations, [insertAnalysis |-> insertAnalysis,
                                                 returned |-> after.returned])
    /\ UNCHANGED <<analysisVars, serviceVars>>

InitStore ==
    /\ pc = "Idle"
    /\ url = BlogUrl
    /\ page = NoDoc
    /\ html = NoDoc
    /\ robotsFile = <<>>
    /\ liveness = <<>>
    /\ Fresh

NextStore == CreateSeoAnalysis

SpecStore == InitStore /\ [][NextStore]_vars

-----------------------------------------------------------------------------
(* Properties                                                              *)

\* The requests of the history issued for one purpose, in order.
Requested(purpose) ==
    LET For(r) == r.purpose = purpose IN SelectSeq(requests, For)

\* The body the site sends with a status.
ServedBody(status) == IF status = 200 THEN page ELSE NotFoundDoc

FetchErrors ==
    {AnalysisFailed("Failed to fetch page: transport"),
     AnalysisFailed("Failed to fetch page: HTTP status")}

\* A request that got an HTTP response with a status below 400.
Answered(r) == ~r.transport /\ r.status < 400

C2_NoFailureAfterFetch ==
    (Requested("page") # <<>> /\ Answered(Requested("page")[1])) => pc # "Failed"

\* The fact bundle of the scoring example.
ExampleBundle ==
    /\ Truthy(metaTags.title) /\ metaTags.titleLength = 55
    /\ metaTags.description = Null
    /\ Truthy(metaTags.canonical) /\ metaTags.canonicalMatches
    /\ metaTags.robots = <<"index", ",", " ", "follow">> /\ metaTags.robotsValid
    /\ metaTags.htmlLang = <<"en">>
    /\ schema.found
    /\ robotsTxt.found
    /\ links.broken = <<>>
    /\ ~breadcrumbs.found

\* C3, as claimed: the example bundle scores 86 with 1 issue, 1 warning and
\* 6 passed checks.
C3_ExampleScores86 ==
    (pc = "Done" /\ ExampleBundle) => scores = Tally(86, 1, 1, 6)

\* C3, amended: the example bundle earns 10+0+5+5+5+15+5+10+0 = 55 points, so
\* calculateScore returns score = round(55/70*100) = 79, issues = 1,
\* warnings = 1 and passed = 7.
C3_ExampleScores79 ==
    (pc = "Done" /\ ExampleBundle) => scores = Tally(79, 1, 1, 7)

\* C3 witness: the example bundle has been scored.
C3_Witness == pc = "Done" /\ ExampleBundle /\ scores.passed = 7

\* C4: for every fact bundle, the score is an integer in 0..100 and issues,
\* warnings and passed are not negative.
C4_ScoreInRange ==
    pc = "Done" =>
        /\ scores.score \in 0..100
        /\ scores.issues \in Nat
        /\ scores.warnings \in Nat
        /\ scores.passed \in Nat

\* C4 witness: a bundle with nothing present and 20 broken links is scored 0.
C4_Witness ==
    /\ pc = "Done"
    /\ scores.score = 0
    /\ Len(links.broken) = LinkCheckCap
    /\ scores.issues = 3 + LinkCheckCap

\* The points of the rubric for the facts of the state, rule by rule.
RubricPoints ==
    (IF metaTags.title = Null THEN 0
       ELSE IF metaTags.titleLength \in 50..60 THEN 10 ELSE 5)
    + (IF metaTags.description = Null THEN 0
         ELSE IF metaTags.descriptionLength \in 150..160 THEN 10 ELSE 5)
    + (IF metaTags.canonical # Null /\ metaTags.canonicalMatches THEN 5 ELSE 0)
    + (IF metaTags.robots # Null /\ metaTags.robotsValid THEN 5 ELSE 0)
    + (IF metaTags.htmlLang # Null THEN 5 ELSE 0)
    + (IF schema.found THEN 15 ELSE 0)
    + (IF robotsTxt.found THEN 5 ELSE 0)
    + (IF links.broken = <<>> THEN 10 ELSE 0)
    + (IF breadcrumbs.found THEN 5 ELSE 0)

\* The integer nearest to 100 * p / 70.
NearestPercent(p) == CHOOSE n \in 0..200 : 2 * (70 * n - 100 * p) \in (0 - 70)..70

\* C5: the score is round(P / 70 * 100) clamped to 0..100, P being the sum of
\* the points of the nine rules; P never exceeds 70 and P = 70 gives 100.
C5_ScoreIsRubric ==
    pc = "Done" =>
        /\ scores.score = Max(0, Min(100, NearestPercent(RubricPoints)))
        /\ RubricPoints <= 70
        /\ RubricPoints = 70 => scores.score = 100

\* C5 witness: a bundle that earns all 70 points is scored 100.
C5_Witness == pc = "Done" /\ RubricPoints = 70 /\ scores.score = 100

\* The collected internal and external links, in document order.
CollectedInternal == LET Inside(l) == ~l.isExternal IN SelectSeq(allLinks, Inside)

CollectedExternal == LET Outside(l) == l.isExternal IN SelectSeq(allLinks, Outside)

\* All internal links, then the first 10 external links.
ProbeOrder ==
    CollectedInternal \o SubSeq(CollectedExternal, 1, Min(10, Len(CollectedExternal)))

ProbeBudget == Min(20, Len(CollectedInternal) + Min(10, Len(CollectedExternal)))

LinkProbes == Requested("link")

InLinks == pc \in {"checkLinks", "fetchRobotsTxt"}

\* C6: the liveness probes are min(20, I + min(10, E)) in number, they go to
\* the first links of the list 'all internal links, then the first 10
\* external links' in that order, and no link beyond them is probed or listed
\* as broken; with I = 30 and E = 15 there are 20 probes while total = 45,
\* internal = 30 and external = 15 are reported.
C6_ProbeCap ==
    /\ InLinks =>
          /\ Len(LinkProbes) <= ProbeBudget
          /\ \A i \in 1..Len(LinkProbes) : LinkProbes[i].url = ProbeOrder[i].url
          /\ \A j \in 1..Len(broken) :
                \E i \in 1..Len(LinkProbes) :
                    ProbeOrder[i].url = broken[j].url /\ ProbeOrder[i].text = broken[j].text
    /\ pc = "fetchRobotsTxt" =>
          /\ Len(LinkProbes) = ProbeBudget
          /\ links.broken = broken
          /\ links.total = Len(allLinks)
          /\ links.internal = Len(CollectedInternal)
          /\ links.external = Len(CollectedExternal)
          /\ (links.internal = 30 /\ links.external = 15) =>
                (Len(LinkProbes) = 20 /\ links.total = 45)

\* C6 witness: a page of 30 internal and 15 external links was probed 20 times.
C6_Witness ==
    /\ pc = "fetchRobotsTxt"
    /\ links.internal = 30
    /\ links.external = 15
    /\ links.total = 45
    /\ Len(LinkProbes) = 20

\* The probes among the first n that were answered with a status of 400 or
\* more or failed at the transport layer, in order.
RECURSIVE FailedProbes(_)
FailedProbes(n) ==
    IF n = 0 THEN <<>>
    ELSE FailedProbes(n - 1) \o
           (IF LinkProbes[n].transport \/ LinkProbes[n].status >= 400 THEN <<n>> ELSE <<>>)

\* C7: the broken list holds exactly the probed links whose probe returned a
\* status of 400 or more or failed at the transport layer; an HTTP answer is
\* recorded with its status and error = null, a transport failure with
\* status = 0 and a non-null error, so status = 0 exactly when error is
\* non-null.
C7_BrokenAccounting ==
    InLinks =>
        LET failed == FailedProbes(Len(LinkProbes)) IN
        /\ Len(broken) = Len(failed)
        /\ \A j \in 1..Len(failed) :
              LET r == LinkProbes[failed[j]]
                  l == ProbeOrder[failed[j]]
                  b == broken[j]
              IN  /\ b.url = l.url /\ b.text = l.text
                  /\ r.transport => (b.status = 0 /\ b.error # Null)
                  /\ ~r.transport => (b.status = r.status /\ b.error = Null)
                  /\ b.status = 0 <=> b.error # Null

\* C7 witness: one probe answered 404 and one timed out, both recorded.
C7_Witness ==
    /\ pc = "fetchRobotsTxt"
    /\ \E j \in 1..Len(links.broken) :
          links.broken[j].status = 404 /\ links.broken[j].error = Null
    /\ \E j \in 1..Len(links.broken) :
          links.broken[j].status = 0 /\ links.broken[j].error # Null

\* The hrefs the claim leaves out: fragment-only, mailto:, tel:, unresolvable.
LeftOutAsClaimed(href) ==
    \/ StartsWith(href, "#")
    \/ StartsWith(href, "mailto:")
    \/ StartsWith(href, "tel:")
    \/ ~ParseURL(href, url).ok

\* The same, and the empty href.
LeftOut(href) == href = <<>> \/ LeftOutAsClaimed(href)

\* The <a href> elements of the page, by position.
HrefAnchors == {i \in DOMAIN html.anchors : html.anchors[i].href # Null}

SameHost(i) ==
    Hostname(ParseURL(html.anchors[i].href, url).url) = Hostname(ParseAbsolute(url).url)

\* The anchors outside Out are collected exactly once each, in document
\* order, internal iff the resolved hostname is the base hostname, and the
\* counts of the result add up.
Classified(Out(_)) ==
    LET counted == {i \in HrefAnchors : ~Out(html.anchors[i].href)} IN
    /\ InLinks =>
          /\ Len(allLinks) = Cardinality(counted)
          /\ {allLinks[k].text : k \in 1..Len(allLinks)} = {html.anchors[i].text : i \in counted}
          /\ \A k \in 1..(Len(allLinks) - 1) : allLinks[k].text < allLinks[k + 1].text
          /\ \A i \in counted : \A k \in 1..Len(allLinks) :
                html.anchors[i].text = allLinks[k].text =>
                    (allLinks[k].isExternal <=> ~SameHost(i))
    /\ pc = "fetchRobotsTxt" =>
          /\ links.total = Cardinality(counted)
          /\ links.internal = Cardinality({i \in counted : SameHost(i)})
          /\ links.external = Cardinality({i \in counted : ~SameHost(i)})
          /\ links.total = links.internal + links.external
          /\ Len(links.externalLinks) = links.external
          /\ html.anchors = ExampleAnchors =>
                /\ links.internal = 1 /\ links.external = 1 /\ links.total = 2
                /\ allLinks[1].text = 1 /\ ~allLinks[1].isExternal
                /\ allLinks[2].text = 2 /\ allLinks[2].isExternal

\* C8, as claimed: only fragment-only, mailto:, tel: and unresolvable hrefs
\* are left out; every other anchor is counted exactly once.
C8_OnlyFourKindsLeftOut == Classified(LeftOutAsClaimed)

\* C8, amended: anchors with an empty href, a fragment-only, mailto: or tel:
\* href or an unresolvable href are left out of all counts and lists; every
\* other anchor is counted exactly once, internal iff its resolved hostname
\* is the base hostname, so total = internal + external.
C8_LinkClassification == Classified(LeftOut)

\* C8 witness: the example page, with /about internal, https://other.com
\* external and #top not counted.
C8_Witness ==
    /\ pc = "fetchRobotsTxt"
    /\ html.anchors = ExampleAnchors
    /\ links.total = 2 /\ links.internal = 1 /\ links.external = 1

\* A trimmed line: where its first colon is, what precedes it, and the
\* trimmed text that follows it.
ColonAt(t) ==
    IF \E i \in 1..Len(t) : t[i] = ":"
      THEN CHOOSE i \in 1..Len(t) : t[i] = ":" /\ \A j \in 1..(i - 1) : t[j] # ":"
      ELSE Len(t) + 1

BeforeColon(t) == SubSeq(t, 1, ColonAt(t) - 1)

AfterColon(t) == Trim(SubSeq(t, ColonAt(t) + 1, Len(t)))

\* The directive a trimmed line carries, whatever its case (<<>>: none).
DirectiveName(t) ==
    LET d == BeforeColon(t) IN
    IF t = <<>> \/ t[1] = "#" THEN <<>>
    ELSE IF d \in {<<"allow">>, <<"Allow">>, <<"ALLOW">>} THEN <<"allow">>
    ELSE IF d \in {<<"disallow">>, <<"Disallow">>, <<"DISALLOW">>} THEN <<"disallow">>
    ELSE IF d \in {<<"sitemap">>, <<"Sitemap">>, <<"SITEMAP">>} THEN <<"sitemap">>
    ELSE IF d \in {<<"user-agent">>, <<"User-agent">>, <<"User-Agent">>, <<"USER-AGENT">>}
      THEN <<"user-agent">>
    ELSE <<>>

\* The user agent in force at line n: the value of the last user-agent line
\* before it, "*" when there is none.
GroupAt(lines, n) ==
    LET before == {j \in 1..(n - 1) : DirectiveName(Trim(lines[j])) = <<"user-agent">>} IN
    IF before = {} THEN <<"*">>
    ELSE AfterColon(Trim(lines[CHOOSE j \in before : \A k \in before : k <= j]))

\* One rule per allow, disallow or sitemap line among the first n, in order.
RECURSIVE RulesOfLines(_, _)
RulesOfLines(lines, n) ==
    IF n = 0 THEN <<>>
    ELSE RulesOfLines(lines, n - 1) \o
           (IF DirectiveName(Trim(lines[n])) \in {<<"allow">>, <<"disallow">>, <<"sitemap">>}
              THEN <<[userAgent |-> GroupAt(lines, n),
                      directive |-> DirectiveName(Trim(lines[n])),
                      path |-> AfterColon(Trim(lines[n]))]>>
              ELSE <<>>)

\* C9: parseRobotsTxt returns, in file order, one rule per line whose
\* directive is allow, disallow or sitemap in any case, with the directive
\* lower-cased, the trimmed text after the first colon as path and the value
\* of the last preceding user-agent line ("*" if none) as userAgent; blank
\* lines, comments and other directives add nothing.  The example text gives
\* (*, disallow, /admin), (*, sitemap, /sitemap.xml).
C9_RobotsRules ==
    (pc = "calculateScore" /\ robotsTxt.found) =>
        LET lines == Split(robotsTxt.content, "\n") IN
        /\ robotsTxt.rules = RulesOfLines(lines, Len(lines))
        /\ robotsTxt.content = ExampleRobots =>
              robotsTxt.rules =
                  <<[userAgent |-> <<"*">>, directive |-> <<"disallow">>, path |-> <<"/admin">>],
                    [userAgent |-> <<"*">>, directive |-> <<"sitemap">>,
                     path |-> <<"/sitemap.xml">>]>>

\* C9 witness: the example text has been parsed into its two rules.
C9_Witness ==
    /\ pc = "calculateScore"
    /\ robotsTxt.content = ExampleRobots
    /\ Len(robotsTxt.rules) = 2

\* A robots.txt request that did not bring a body: a transport failure or a
\* status outside 200..299.
RobotsFetchFailed(r) == r.transport \/ r.status \notin 200..299

\* C10: when the robots.txt fetch fails in any way, the run does not fail:
\* robotsTxt is found = false, content = null, rules = [], and the run is at
\* the scoring, at the comparison or has returned its result, with no error.
C10_RobotsFailureIsAbsence ==
    \A i \in 1..Len(Requested("robots")) :
        RobotsFetchFailed(Requested("robots")[i]) =>
            /\ robotsTxt = [found |-> FALSE, content |-> Null, rules |-> <<>>]
            /\ pc \in {"calculateScore", "compareAmpAndRegular", "Done"}
            /\ failure = ""

\* C10 witness: a run whose robots.txt request was answered 404 has returned.
C10_Witness ==
    /\ pc = "Done"
    /\ Requested("robots") # <<>>
    /\ Requested("robots")[1].status = 404
    /\ robotsTxt = [found |-> FALSE, content |-> Null, rules |-> <<>>]


-----------------------------------------------------------------------------
(* AMP detection and resolution                                            *)

\* The steps of a run that come after the resolution of the AMP URLs.
Resolved ==
    pc \in {"Extract", "analyzeLinks", "checkLinks", "fetchRobotsTxt", "calculateScore",
            "compareAmpAndRegular", "Done"}

\* C11: a page whose root element carries amp (or the lightning sign) gives
\* isAmp = true and ampUrl = the analyzed URL, whatever amphtml link it has,
\* and no AMP candidate is probed; any other page gives isAmp = false and
\* regularUrl = the analyzed URL.
C11_AmpRootWins ==
    Resolved =>
        IF page.rootAmp
          THEN isAmp /\ ampUrl = NormalizeUrl(url) /\ Requested("amp") = <<>>
          ELSE ~isAmp /\ regularUrl = NormalizeUrl(url)

\* C11 witness: the result of an AMP page that also has an amphtml link.
C11_Witness ==
    /\ pc = "Done"
    /\ page.rootAmp /\ Truthy(page.amphtml)
    /\ isAmp /\ ampUrl = url

\* The four candidates as the specification lists them, for the analyzed URL.
Candidates ==
    LET u == ParseAbsolute(NormalizeUrl(url)).url
        origin == <<u.scheme, "//", u.host>>
    IN  << origin \o <<"/amp">> \o u.path,
           origin \o u.path \o <<"/amp", "/">>,
           origin \o u.path \o <<"?amp=1">>,
           origin \o <<"/amp">> \o u.path \o u.query >>

\* A probe answered with status 200.
Found(r) == ~r.transport /\ r.status = 200

\* C12: the candidates are probed with HEAD in the listed order, at most
\* four of them; every probe before the last was not answered with 200; a
\* probe answered with 200 ends the probing and its candidate is ampUrl; when
\* all four were not, ampUrl is absent; no probe makes the analysis fail;
\* and a page with an amphtml link (or an AMP page) is not probed at all.
C12_CandidateProbes ==
    LET probes == Requested("amp")
        n == Len(probes)
    IN  /\ n <= 4
        /\ \A i \in 1..n :
              /\ probes[i].method = "HEAD"
              /\ probes[i].url = Candidates[i]
              /\ i < n => ~Found(probes[i])
        /\ n > 0 => failure = "" /\ pc # "Failed"
        /\ (page.rootAmp \/ Truthy(page.amphtml)) => n = 0
        /\ (Resolved /\ ~page.rootAmp /\ ~Truthy(page.amphtml)) =>
              IF n > 0 /\ Found(probes[n])
                THEN ampUrl = Candidates[n]
                ELSE n = 4 /\ ampUrl = Null

\* C12 witness: the first candidate timed out, the second answered 404 and
\* the third answered 200 and became ampUrl; the fourth was never probed.
C12_Witness ==
    LET probes == Requested("amp") IN
    /\ pc = "Done"
    /\ Len(probes) = 3
    /\ probes[1].transport
    /\ probes[2].status = 404
    /\ Found(probes[3])
    /\ ampUrl = Candidates[3]
    /\ url = <<"https:", "//", "example.com", "/blog", "?id=1">>

-----------------------------------------------------------------------------
(* The comparison of the AMP and the regular version                       *)

\* The two re-fetches of the comparison.
Refetches == Requested("compare")

\* C13: when a re-fetch of the comparison fails, the run still ends in Done
\* without failure and without an ampComparison, and the comparison step
\* changes no other field of the result, whatever its two fetches answer.
C13_ComparisonFailureSkipped ==
    [][pc = "compareAmpAndRegular" =>
          /\ pc' = "Done"
          /\ failure' = ""
          /\ UNCHANGED <<url, performance, isAmp, ampUrl, regularUrl, metaTags, schema,
                         breadcrumbs, links, robotsTxt, scores>>
          /\ (\E i \in 1..Len(Requested("compare")') : ~Answered(Requested("compare")'[i]))
                => ampComparison' = <<>>]_vars

\* C13 witness: a run that ended in Done with a score although the re-fetch
\* of the regular version timed out.
C13_Witness ==
    /\ pc = "Done"
    /\ failure = ""
    /\ Len(Refetches) = 2
    /\ Answered(Refetches[1])
    /\ Refetches[2].transport
    /\ ampComparison = <<>>
    /\ scores.score > 0

\* C14: an ampComparison is present only if ampUrl and regularUrl are both
\* resolved and differ and both re-fetches were answered with a page; the
\* comparison step is entered, and re-fetches are issued, only with two
\* resolved URLs that differ.
C14_ComparisonOnlyOfTwoPages ==
    LET twoPages == Truthy(ampUrl) /\ Truthy(regularUrl) /\ ampUrl # regularUrl IN
    /\ ampComparison # <<>> =>
          /\ twoPages
          /\ Len(Refetches) = 2
          /\ Refetches[1].url = ampUrl /\ Answered(Refetches[1])
          /\ Refetches[2].url = regularUrl /\ Answered(Refetches[2])
    /\ (pc = "compareAmpAndRegular" \/ Refetches # <<>>) => twoPages

\* C14 witness: a result with an ampComparison.
C14_Witness ==
    /\ pc = "Done"
    /\ ampComparison # <<>>
    /\ Len(Refetches) = 2
    /\ ampUrl # regularUrl

\* C20: the comparison has the three differences Load Time, Page Size and
\* Schema Markup in this order; Load Time and Page Size are positive iff the
\* AMP side is strictly lower and negative otherwise; Schema Markup is
\* neutral iff the sides agree, positive iff only the AMP side has schema and
\* negative iff only the regular side has it.
C20_Differences ==
    ampComparison # <<>> =>
        LET d == ampComparison[1].differences
            a == ampData.performance
            r == regularData.performance
            ampSchema == extractSchema(ampData.html).found
            regularSchema == extractSchema(regularData.html).found
        IN  /\ Len(d) = 3
            /\ <<d[1].category, d[2].category, d[3].category>>
                  = <<"Load Time", "Page Size", "Schema Markup">>
            /\ d[1].impact \in {"positive", "negative"}
            /\ d[1].impact = "positive" <=> a.loadTime < r.loadTime
            /\ d[2].impact \in {"positive", "negative"}
            /\ d[2].impact = "positive" <=> a.pageSize < r.pageSize
            /\ d[3].impact \in {"positive", "negative", "neutral"}
            /\ d[3].impact = "neutral" <=> (ampSchema <=> regularSchema)
            /\ d[3].impact = "positive" <=> (ampSchema /\ ~regularSchema)
            /\ d[3].impact = "negative" <=> (~ampSchema /\ regularSchema)

\* C20 witness: both sides were answered with the same page, so that the
\* load times and sizes are equal and both impacts are negative.
C20_Witness ==
    /\ ampComparison # <<>>
    /\ ampData.performance.loadTime = regularData.performance.loadTime
    /\ ampData.performance.pageSize = regularData.performance.pageSize
    /\ ampComparison[1].differences[1].impact = "negative"
    /\ ampComparison[1].differences[3].impact = "neutral"

-----------------------------------------------------------------------------
(* The order of the steps of a run                                         *)

\* The position of a step in the order the specification gives: the
\* extractors and the link analyzer, then the AMP resolution.
ClaimedRank(step) ==
    CASE step = "Idle" -> 0
      [] step \in {"Extract", "analyzeLinks", "checkLinks", "fetchRobotsTxt"} -> 2
      [] step \in {"ResolveAmp", "AmpProbe"} -> 3
      [] step = "calculateScore" -> 4
      [] step = "compareAmpAndRegular" -> 5
      [] step = "Done" -> 6
      [] step = "Failed" -> 7

\* The position of a step with the AMP resolution before the extractors.
Rank(step) ==
    CASE step = "Idle" -> 0
      [] step \in {"ResolveAmp", "AmpProbe"} -> 2
      [] step \in {"Extract", "analyzeLinks", "checkLinks", "fetchRobotsTxt"} -> 3
      [] step = "calculateScore" -> 4
      [] step = "compareAmpAndRegular" -> 5
      [] step = "Done" -> 6
      [] step = "Failed" -> 7

\* The purposes of the requests issued so far, in order.
Purposes == [i \in 1..Len(requests) |-> requests[i].purpose]

\* Position of the requests of a purpose, by the step that issues them.
PurposeStep(purpose) ==
    CASE purpose = "page" -> "Idle"
      [] purpose = "amp" -> "AmpProbe"
      [] purpose = "link" -> "checkLinks"
      [] purpose = "robots" -> "fetchRobotsTxt"
      [] purpose = "compare" -> "compareAmpAndRegular"

\* Every step of a finished run has been gone through.
WentThrough ==
    pc = "Done" =>
        /\ Requested("page") # <<>>
        /\ Truthy(ampUrl) \/ Truthy(regularUrl)
        /\ metaTags = extractMetaTags(page, url)
        /\ Requested("robots") # <<>>
        /\ scores # NoScores

\* C15, as claimed: the steps are entered in the order Idle, Fetching,
\* Extracting, ResolvingAmp, Scoring, ComparingAmp, Done, none of them twice:
\* the extractors and the link analyzer run before the AMP resolution and its
\* probes.
C15_ExtractBeforeResolve ==
    /\ [][ClaimedRank(pc') >= ClaimedRank(pc)]_vars
    /\ [](\A i, j \in 1..Len(requests) :
            i < j => ClaimedRank(PurposeStep(Purposes[i])) <= ClaimedRank(PurposeStep(Purposes[j])))

\* C15, amended: the steps are entered in the order Idle, Fetching,
\* ResolvingAmp, Extracting, Scoring, ComparingAmp, Done, none of them twice:
\* the AMP resolution and its probes come after the fetch of the page and
\* before the extractors and the link analyzer, these end before the scoring
\* and the scoring before the comparison; a run that reaches Done has gone
\* through all of them, and a run that fails enters no further step.
C15_ResolveBeforeExtract ==
    /\ [][Rank(pc') >= Rank(pc)]_vars
    /\ [](\A i, j \in 1..Len(requests) :
            i < j => Rank(PurposeStep(Purposes[i])) <= Rank(PurposeStep(Purposes[j])))
    /\ []WentThrough

\* C15 witness: a finished run that probed AMP candidates, then probed a
\* link, then fetched robots.txt and at last compared the two versions.
C15_Witness ==
    /\ pc = "Done"
    /\ Requested("amp") # <<>>
    /\ Requested("link") # <<>>
    /\ Requested("compare") # <<>>
    /\ Purposes[1] = "page" /\ Purposes[2] = "amp"
    /\ Purposes[Len(requests) - 2] = "robots"

-----------------------------------------------------------------------------
(* The canonical link                                                      *)

\* The canonical link of the page is absent (no link, or an empty href).
CanonicalAbsent == page.canonical \in {Null, <<>>}

\* C17: an absent canonical gives canonicalMatches = false; a canonical that
\* does not resolve against the input URL gives false and no failure; and
\* canonicalMatches is true exactly when the canonical, resolved against the
\* input URL, is the input URL as an absolute URL (a relative or upper-case
\* spelling of the same URL matches, another path, scheme, host, query or a
\* fragment does not).
C17_CanonicalMatches ==
    pc = "analyzeLinks" =>
        LET resolved == ParseURL(page.canonical, url)
            input == ParseAbsolute(url)
        IN  /\ failure = ""
            /\ CanonicalAbsent => metaTags.canonical = Null /\ ~metaTags.canonicalMatches
            /\ ~resolved.ok => ~metaTags.canonicalMatches
            /\ metaTags.canonicalMatches <=>
                  /\ ~CanonicalAbsent
                  /\ resolved.ok
                  /\ Href(resolved.url) = Href(input.url)
            /\ url = BlogUrl =>
                  /\ page.canonical \in {<<"/blog">>, BlogUrl, <<"//", "example.com", "/blog">>,
                                         <<"https:", "//", "EXAMPLE.COM", "/blog">>}
                        => metaTags.canonicalMatches
                  /\ page.canonical \in {<<"/post">>, <<"/blog", "#", "top">>, <<"?id=1">>,
                                         <<"http:", "//", "example.com", "/blog">>,
                                         <<"https:", "//", "other.com", "/blog">>}
                        => ~metaTags.canonicalMatches

\* C17 witness: a canonical that does not resolve was extracted and does
\* not match.
C17_Witness ==
    /\ pc = "analyzeLinks"
    /\ page.canonical = InvalidHref
    /\ metaTags.canonical = InvalidHref
    /\ ~metaTags.canonicalMatches
    /\ failure = ""

-----------------------------------------------------------------------------
(* The three tallies of calculateScore                                     *)

\* 1 for a condition that holds, 0 otherwise.
One(cond) == IF cond THEN 1 ELSE 0

TitleInRange == metaTags.title # Null /\ metaTags.titleLength \in 50..60

DescriptionInRange ==
    metaTags.description # Null /\ metaTags.descriptionLength \in 150..160

\* The rules of the rubric that are satisfied.
RubricPassed ==
    One(TitleInRange) + One(DescriptionInRange)
    + One(metaTags.canonical # Null /\ metaTags.canonicalMatches)
    + One(metaTags.robots # Null /\ metaTags.robotsValid)
    + One(metaTags.htmlLang # Null)
    + One(schema.found)
    + One(robotsTxt.found)
    + One(links.broken = <<>>)
    + One(breadcrumbs.found)

\* The unsatisfied rules the rubric counts as warnings.
RubricWarnings ==
    One(metaTags.title # Null /\ ~TitleInRange)
    + One(metaTags.description # Null /\ ~DescriptionInRange)
    + One(~(metaTags.canonical # Null /\ metaTags.canonicalMatches))
    + One(~(metaTags.robots # Null /\ metaTags.robotsValid))
    + One(metaTags.htmlLang = Null)
    + One(~robotsTxt.found)
    + One(~breadcrumbs.found)

\* The unsatisfied rules the rubric counts as issues, the broken links one
\* by one.
RubricIssues ==
    One(metaTags.title = Null) + One(metaTags.description = Null) + One(~schema.found)
    + Len(links.broken)

\* C19: every rule adds to exactly one tally: 1 to passed when it is
\* satisfied, else 1 to warnings or to issues as the rubric says, the
\* broken-links rule adding the number of broken links to issues; so
\* passed <= 9 and passed + warnings + issues = 8 + max(1, broken links).
C19_Tallies ==
    pc = "Done" =>
        /\ scores.passed = RubricPassed
        /\ scores.warnings = RubricWarnings
        /\ scores.issues = RubricIssues
        /\ scores.passed <= 9
        /\ scores.passed + scores.warnings + scores.issues
              = 8 + Max(1, Len(links.broken))

\* C19 witness: a bundle with two broken links, scored with ten tally marks.
C19_Witness ==
    /\ pc = "Done"
    /\ Len(links.broken) = 2
    /\ scores.issues >= 2
    /\ scores.passed + scores.warnings + scores.issues = 10

-----------------------------------------------------------------------------
(* The persistence store                                                   *)

\* The ids createSeoAnalysis has returned so far.
ReturnedIds == {creations[k].returned.id : k \in 1..Len(creations)}

\* The records returned for a url, as a set.
ReturnedFor(u) ==
    {creations[k].returned : k \in {j \in 1..Len(creations) : creations[j].insertAnalysis.url = u}}

\* C18: the ids createSeoAnalysis returns strictly increase from call to
\* call; getSeoAnalysis of a returned id gives the record returned, with the
\* url and the analysisData of that call; getSeoAnalysis of an id never
\* returned gives nothing; getSeoAnalysesByUrl(u) gives exactly the records
\* saved with url u, each once.
C18_StoreKeepsRecords ==
    /\ \A j, k \in 1..Len(creations) :
          j < k => creations[j].returned.id < creations[k].returned.id
    /\ \A k \in 1..Len(creations) :
          LET call == creations[k] IN
          /\ getSeoAnalysis(call.returned.id) = <<call.returned>>
          /\ call.returned.url = call.insertAnalysis.url
          /\ call.returned.analysisData = call.insertAnalysis.analysisData
    /\ \A id \in (0..(MaxAnalyses + 2)) \ ReturnedIds : getSeoAnalysis(id) = <<>>
    /\ \A u \in StoreUrls \cup {<<"https:", "//", "example.com", "/post">>} :
          LET found == getSeoAnalysesByUrl(u) IN
          /\ {found[i] : i \in 1..Len(found)} = ReturnedFor(u)
          /\ Len(found) = Cardinality(ReturnedFor(u))

\* C18 witness: three records saved, two of them for the same url.
C18_Witness ==
    /\ Len(creations) = 3
    /\ Len(getSeoAnalysesByUrl(BlogUrl)) = 2
    /\ getSeoAnalysis(3) # <<>>
    /\ getSeoAnalysis(4) = <<>>

-----------------------------------------------------------------------------
(* The scores of the two sides of the comparison                           *)

\* The rubric points of a re-fetched page taken alone: the seven rules about
\* the page, nothing for robots.txt, and the 10 points of a page without
\* broken links.
SidePoints(meta, sch, crumbs) ==
    (IF meta.title = Null THEN 0 ELSE IF meta.titleLength \in 50..60 THEN 10 ELSE 5)
    + (IF meta.description = Null THEN 0
         ELSE IF meta.descriptionLength \in 150..160 THEN 10 ELSE 5)
    + (IF meta.canonical # Null /\ meta.canonicalMatches THEN 5 ELSE 0)
    + (IF meta.robots # Null /\ meta.robotsValid THEN 5 ELSE 0)
    + (IF meta.htmlLang # Null THEN 5 ELSE 0)
    + (IF sch.found THEN 15 ELSE 0)
    + 10
    + (IF crumbs.found THEN 5 ELSE 0)

\* The issues of a re-fetched page taken alone.
SideIssues(meta, sch) ==
    One(meta.title = Null) + One(meta.description = Null) + One(~sch.found)

\* The score and the issues of the page a re-fetch returned from target.
SideScore(target, fetched) ==
    LET meta == extractMetaTags(fetched.html, target)
        sch == extractSchema(fetched.html)
        crumbs == extractBreadcrumbs(fetched.html)
    IN  [score |-> Max(0, Min(100, NearestPercent(SidePoints(meta, sch, crumbs)))),
         issues |-> SideIssues(meta, sch)]

\* C21: the scores and issues of both sides of a comparison are those of
\* the re-fetched pages with robots.txt not found and no broken link,
\* whatever the primary analysis found for robots.txt and the links; and the
\* comparison step issues no robots.txt fetch and no liveness probe.
C21_ComparisonIgnoresRobotsAndLinks ==
    /\ [](ampComparison # <<>> =>
            /\ ampComparison[1].ampScore = SideScore(ampUrl, ampData).score
            /\ ampComparison[1].ampIssues = SideScore(ampUrl, ampData).issues
            /\ ampComparison[1].regularScore = SideScore(regularUrl, regularData).score
            /\ ampComparison[1].regularIssues = SideScore(regularUrl, regularData).issues)
    /\ [][pc = "compareAmpAndRegular" =>
            /\ Requested("robots")' = Requested("robots")
            /\ Requested("link")' = Requested("link")
            /\ Requested("amp")' = Requested("amp")
            /\ Len(requests') = Len(requests) + 2]_vars

\* C21 witness: a comparison made after a primary analysis that found a
\* robots.txt and a broken link.
C21_Witness ==
    /\ pc = "Done"
    /\ ampComparison # <<>>
    /\ robotsTxt.found
    /\ links.broken # <<>>
    /\ Requested("link") # <<>>
    /\ Len(Requested("robots")) = 1

-----------------------------------------------------------------------------
(* The ceiling of the scores of a comparison                               *)

\* C27: in every ampComparison, ampScore and regularScore are at most 93,
\* the score of the 65 points a page can earn without a robots.txt.
C27_ComparisonScoresAtMost93 ==
    ampComparison # <<>> =>
        /\ ampComparison[1].ampScore <= 93
        /\ ampComparison[1].regularScore <= 93
        /\ NearestPercent(MaxPoints - 5) = 93

\* C27 witness: a comparison whose regular side earns all 65 points and is
\* scored 93.
C27_Witness ==
    /\ pc = "Done"
    /\ ampComparison # <<>>
    /\ ampComparison[1].regularScore = 93
    /\ SidePoints(extractMetaTags(regularData.html, regularUrl),
                  extractSchema(regularData.html),
                  extractBreadcrumbs(regularData.html)) = 65

-----------------------------------------------------------------------------
(* The regular version of an AMP page                                      *)

\* The canonical href of the analyzed page resolved against the analyzed URL.
CanonicalOfPage == ParseURL(html.canonical, NormalizeUrl(url))

\* C22: once the AMP resolution of an AMP page is done, regularUrl is the
\* canonical href of the page resolved against the analyzed URL if the page
\* has a canonical link, and is unresolved otherwise, never the analyzed URL
\* as a fallback; and a run with regularUrl unresolved never enters the
\* comparison and issues no re-fetch.
C22_RegularOfAmpIsCanonical ==
    /\ (Resolved /\ html.rootAmp) =>
          /\ Truthy(html.canonical) =>
                /\ CanonicalOfPage.ok
                /\ regularUrl = Href(CanonicalOfPage.url)
          /\ ~Truthy(html.canonical) =>
                /\ regularUrl = Null
                /\ regularUrl # NormalizeUrl(url)
    /\ regularUrl = Null =>
          /\ pc # "compareAmpAndRegular"
          /\ Refetches = <<>>
          /\ ampComparison = <<>>

\* C22 witness: the result of an AMP page without a canonical link.
C22_Witness ==
    /\ pc = "Done"
    /\ isAmp
    /\ ~Truthy(html.canonical)
    /\ ampUrl = url
    /\ regularUrl = Null
    /\ Refetches = <<>>

\* The result of an AMP page whose canonical link names another page.
C22_WitnessCanonical ==
    /\ pc = "Done"
    /\ isAmp
    /\ html.canonical = <<"/post">>
    /\ regularUrl = <<"https:", "//", "example.com", "/post">>
    /\ Len(Refetches) = 2

-----------------------------------------------------------------------------
(* The external links of the result                                        *)

\* The external links listed in broken.
BrokenExternal ==
    {i \in 1..Len(CollectedExternal) :
        \E j \in 1..Len(links.broken) : links.broken[j].url = CollectedExternal[i].url}

\* C23: externalLinks has one entry for every collected external link, in
\* document order, probed or not, so its length is links.external; and every
\* entry has status 200, also the entry of a link that is listed in broken
\* with a status of 400 or more or 0.
C23_ExternalLinksPlaceholder ==
    pc = "fetchRobotsTxt" =>
        /\ Len(links.externalLinks) = links.external
        /\ links.external = Len(CollectedExternal)
        /\ \A i \in 1..Len(CollectedExternal) :
              /\ links.externalLinks[i].url = CollectedExternal[i].url
              /\ links.externalLinks[i].text = CollectedExternal[i].text
              /\ links.externalLinks[i].status = 200

\* C23 witness: twelve external links, ten of them probed and all ten
\* answered 404, and twelve entries with status 200.
C23_Witness ==
    /\ pc = "fetchRobotsTxt"
    /\ links.external = 12
    /\ Len(links.externalLinks) = 12
    /\ BrokenExternal # {}
    /\ \E j \in 1..Len(links.broken) :
          /\ links.broken[j].status = 404
          /\ links.broken[j].url = links.externalLinks[1].url
    /\ links.externalLinks[1].status = 200
    /\ Len(Requested("link")) < links.total

-----------------------------------------------------------------------------
(* The robots.txt facts of the result                                      *)

\* C26, as claimed: once robots.txt was fetched, found = false implies
\* content = null and rules = [], and found = true implies that content is
\* the non-empty body that was fetched and rules = parseRobotsTxt(content),
\* whatever the fetch was answered, a 200 with an empty body included.
C26_RobotsTxtFactsConsistent ==
    Requested("robots") # <<>> =>
        /\ ~robotsTxt.found =>
              /\ robotsTxt.content = Null
              /\ robotsTxt.rules = <<>>
        /\ robotsTxt.found =>
              /\ robotsTxt.content # <<>>
              /\ robotsTxt.content = robotsFile
              /\ robotsTxt.rules = parseRobotsTxt(robotsTxt.content)

-----------------------------------------------------------------------------
(* The probes of a run, each with the wait for its answer                  *)

\* A probe that was issued and is not yet answered.
Probe(purpose, target) == [purpose |-> purpose, url |-> target]

\* What a step of the probing loops leaves alone.
probeFrame == <<ampData, regularData, storageVars>>

\* The loop of analyzeLinks going on to the next link without waiting for
\* the answer of the probe it issued.
IssueLinkProbeUnawaited ==
    /\ pc = "checkLinks"
    /\ linksToCheck # <<>>
    /\ outstanding' = Append(outstanding, Probe("link", Head(linksToCheck).url))
    /\ linksToCheck' = Tail(linksToCheck)
    /\ UNCHANGED <<pc, failure, page, robotsFile, liveness, url, html, performance, isAmp,
                   ampUrl, regularUrl, metaTags, schema, breadcrumbs, allLinks, links,
                   broken, robotsTxt, scores, ampComparison, ampPatterns, requests>>
    /\ UNCHANGED <<probeFrame, apiVars, schedulerVars, scanVars>>

\* The loop of analyzeLinks: the call of checkLinkStatus for the next link of
\* the check list, which the loop awaits.
IssueLinkProbe ==
    /\ pc = "checkLinks"
    /\ linksToCheck # <<>>
    /\ outstanding' = Append(outstanding, Probe("link", Head(linksToCheck).url))
    /\ pc' = "awaitLinkProbe"
    /\ UNCHANGED <<failure, page, robotsFile, liveness, url, html, performance, isAmp,
                   ampUrl, regularUrl, metaTags, schema, breadcrumbs, allLinks, links,
                   linksToCheck, broken, robotsTxt, scores, ampComparison, ampPatterns,
                   requests>>
    /\ UNCHANGED <<probeFrame, apiVars, schedulerVars, scanVars>>

\* The answer of the awaited link probe, and the rest of the iteration.
ReceiveLinkProbe ==
    /\ pc = "awaitLinkProbe"
    /\ LET link == Head(linksToCheck)
           outcome == liveness[link.url]
           result == checkLinkStatus(outcome)
       IN  /\ requests' = Append(requests, Request("HEAD", "link", link.url, outcome))
           /\ broken' = IF IsBroken(result)
                          THEN Append(broken, [url |-> link.url, text |-> link.text,
                                               status |-> result.status,
                                               error |-> result.error])
                          ELSE broken
    /\ linksToCheck' = Tail(linksToCheck)
    /\ outstanding' = Tail(outstanding)
    /\ pc' = "checkLinks"
    /\ UNCHANGED <<failure, page, robotsFile, liveness, url, html, performance, isAmp,
                   ampUrl, regularUrl, metaTags, schema, breadcrumbs, allLinks, links,
                   robotsTxt, scores, ampComparison, ampPatterns>>
    /\ UNCHANGED <<probeFrame, apiVars, schedulerVars, scanVars>>

\* The loop of detectAmpUrl: the HEAD request of the next candidate, which
\* the loop awaits.
IssueAmpProbe ==
    /\ pc = "AmpProbe"
    /\ ampPatterns # <<>>
    /\ outstanding' = Append(outstanding, Probe("amp", Head(ampPatterns)))
    /\ pc' = "awaitAmpProbe"
    /\ UNCHANGED <<failure, page, robotsFile, liveness, url, html, performance, isAmp,
                   ampUrl, regularUrl, metaTags, schema, breadcrumbs, allLinks, links,
                   linksToCheck, broken, robotsTxt, scores, ampComparison, ampPatterns,
                   requests>>
    /\ UNCHANGED <<probeFrame, apiVars, schedulerVars, scanVars>>

\* The answer of the awaited candidate probe: the return when it is a 200 or
\* was the last one.
ReceiveAmpProbe ==
    /\ pc = "awaitAmpProbe"
    /\ \E outcome \in AmpProbeOutcomes :
        /\ requests' = Append(requests,
                              Request("HEAD", "amp", Head(ampPatterns), outcome))
        /\ IF ~outcome.transport /\ outcome.status = 200
             THEN ampUrl' = Head(ampPatterns) /\ pc' = "Extract"
             ELSE /\ ampUrl' = Null
                  /\ pc' = IF Tail(ampPatterns) = <<>> THEN "Extract" ELSE "AmpProbe"
    /\ ampPatterns' = Tail(ampPatterns)
    /\ outstanding' = Tail(outstanding)
    /\ UNCHANGED <<failure, page, robotsFile, liveness, url, html, performance, isAmp,
                   regularUrl, metaTags, schema, breadcrumbs, allLinks, linksToCheck,
                   broken, links, robotsTxt, scores, ampComparison>>
    /\ UNCHANGED <<probeFrame, apiVars, schedulerVars, scanVars>>

\* Pages without an amphtml link and with few links, whose AMP candidates
\* are probed, and pages with an amphtml link and many links.
ProbedPages ==
    {ArticleBody(FALSE, Null, Null, anchors) : anchors \in {<<>>, ExampleAnchors}}
      \cup {ArticleBody(FALSE, <<"/amp", "/blog">>, Null, anchors) :
               anchors \in {Interleaved(45, 3), ExternalFirst(12, 4), ExternalFirst(8, 15)}}

\* A run from the AMP resolution to the return of analyzeLinks.
InitProbes ==
    /\ pc = "ResolveAmp"
    /\ url = BlogUrl
    /\ page \in ProbedPages
    /\ html = page
    /\ robotsFile = <<>>
    /\ liveness \in Liveness(page, url)
    /\ Fresh

NextProbes ==
    \/ ResolveAmp
    \/ IssueAmpProbe
    \/ ReceiveAmpProbe
    \/ Extract
    \/ StartLinks
    \/ IssueLinkProbe
    \/ ReceiveLinkProbe
    \/ LinksReturn

SpecProbes == InitProbes /\ [][NextProbes]_vars

\* The outstanding probes issued for one purpose.
Outstanding(purpose) ==
    LET For(p) == p.purpose = purpose IN SelectSeq(outstanding, For)

\* C24: at every moment at most one link-liveness probe and at most one
\* AMP-candidate probe is outstanding; a link probe is outstanding only when
\* all the probes before it in the check list have been answered, and it goes
\* to the next link of the check list; and the link probes of a run,
\* answered or outstanding, never exceed 20.
C24_ProbesOneAtATime ==
    /\ Len(Outstanding("link")) <= 1
    /\ Len(Outstanding("amp")) <= 1
    /\ Len(outstanding) <= 1
    /\ Outstanding("link") # <<>> =>
          /\ Len(LinkProbes) < Len(ProbeOrder)
          /\ Outstanding("link")[1].url = ProbeOrder[Len(LinkProbes) + 1].url
    /\ Outstanding("amp") # <<>> =>
          Outstanding("amp")[1].url = AmpPatterns(url)[Len(Requested("amp")) + 1]
    /\ \A i \in 1..Len(LinkProbes) : LinkProbes[i].url = ProbeOrder[i].url
    /\ Len(LinkProbes) + Len(Outstanding("link")) <= 20

\* C24 witness: the twentieth probe of a page of 45 links is outstanding,
\* nineteen having been answered.
C24_Witness ==
    /\ pc = "awaitLinkProbe"
    /\ Len(allLinks) = 45
    /\ Len(LinkProbes) = 19
    /\ Len(Outstanding("link")) = 1

\* The third AMP candidate is being probed after two that were not found.
C24_WitnessAmp ==
    /\ pc = "awaitAmpProbe"
    /\ Len(Requested("amp")) = 2
    /\ Len(Outstanding("amp")) = 1

-----------------------------------------------------------------------------
(* POST /api/analyze                                                       *)

\* Most requests POST /api/analyze serves, one after the other.
MaxRequests == 2

\* Request bodies: a URL, a URL without a scheme, a URL that does not parse,
\* and a body without url.
Bodies ==
    {[url |-> BlogUrl], [url |-> <<"example.com", "/blog", "?id=1">>],
     [url |-> InvalidHref], [url |-> Null]}

\* urlAnalysisSchema.parse: url is a string that new URL() accepts.
UrlAnalysisSchemaAccepts(b) == b.url # Null /\ ParseAbsolute(b.url).ok

\* The value analyzeWebsite returns.
AnalysisResult ==
    [url |-> url, metaTags |-> metaTags, breadcrumbs |-> breadcrumbs, schema |-> schema,
     robotsTxt |-> robotsTxt, links |-> links, performance |-> performance,
     overallScore |-> scores.score, issues |-> scores.issues,
     warnings |-> scores.warnings, passed |-> scores.passed,
     isAmp |-> isAmp, ampUrl |-> ampUrl, regularUrl |-> regularUrl,
     ampComparison |-> ampComparison]

\* res.json({success: true, data, analysisId})
SuccessResponse(data, analysisId) ==
    [status |-> 200, success |-> TRUE, data |-> <<data>>, analysisId |-> analysisId,
     error |-> ""]

\* res.status(400).json({success: false, error})
ErrorResponse(message) ==
    [status |-> 400, success |-> FALSE, data |-> <<>>, analysisId |-> 0,
     error |-> message]

\* The locals of a run of analyzeWebsite before its first step.
FreshRun ==
    /\ ampData = NoFetch
    /\ regularData = NoFetch
    /\ failure = ""
    /\ url = <<>>
    /\ html = NoDoc
    /\ performance = NoPerformance
    /\ isAmp = FALSE
    /\ ampUrl = Null
    /\ regularUrl = Null
    /\ metaTags = NoMetaTags
    /\ schema = extractSchema(NoDoc)
    /\ breadcrumbs = extractBreadcrumbs(NoDoc)
    /\ allLinks = <<>>
    /\ linksToCheck = <<>>
    /\ broken = <<>>
    /\ links = NoLinks
    /\ robotsTxt = NoRobotsTxt
    /\ scores = NoScores
    /\ ampComparison = <<>>
    /\ ampPatterns = <<>>
    /\ requests = <<>>

\* The handler up to the call of analyzeWebsite: the body is parsed, and a
\* body the schema rejects is answered with the error.
ParseAnalyzeBody ==
    /\ pc = "Received"
    /\ IF UrlAnalysisSchemaAccepts(reqBody)
         THEN /\ url' = reqBody.url
              /\ pc' = "Idle"
              /\ UNCHANGED responses
         ELSE /\ responses' = Append(responses, ErrorResponse("ZodError"))
              /\ pc' = "Responded"
              /\ UNCHANGED url
    /\ UNCHANGED <<failure, page, robotsFile, liveness, html, performance, isAmp, ampUrl,
                   regularUrl, metaTags, schema, breadcrumbs, allLinks, linksToCheck,
                   broken, links, robotsTxt, scores, ampComparison, ampPatterns, requests>>
    /\ UNCHANGED <<ampData, regularData, storageVars, probeVars, reqBody, schedulerVars, scanVars>>

\* The catch of the handler storing the failed analysis before it answers.
RespondAnalysisErrorStored ==
    /\ pc = "Failed"
    /\ LET insertAnalysis == [url |-> url, analysisData |-> AnalysisResult]
           after == createSeoAnalysis(insertAnalysis)
       IN  /\ seoAnalyses' = after.seoAnalyses
           /\ currentAnalysisId' = after.currentAnalysisId
           /\ creations' = Append(creations, [insertAnalysis |-> insertAnalysis,
                                                returned |-> after.returned])
    /\ responses' = Append(responses, ErrorResponse(failure))
    /\ pc' = "Responded"
    /\ UNCHANGED <<failure, page, robotsFile, liveness, url, html, performance, isAmp,
                   ampUrl, regularUrl, metaTags, schema, breadcrumbs, allLinks,
                   linksToCheck, broken, links, robotsTxt, scores, ampComparison,
                   ampPatterns, requests>>
    /\ UNCHANGED <<ampData, regularData, probeVars, reqBody, schedulerVars, scanVars>>

\* The catch of the handler: analyzeWebsite threw.
RespondAnalysisError ==
    /\ pc = "Failed"
    /\ responses' = Append(responses, ErrorResponse(failure))
    /\ pc' = "Responded"
    /\ UNCHANGED <<failure, page, robotsFile, liveness, url, html, performance, isAmp,
                   ampUrl, regularUrl, metaTags, schema, breadcrumbs, allLinks,
                   linksToCheck, broken, links, robotsTxt, scores, ampComparison,
                   ampPatterns, requests>>
    /\ UNCHANGED <<ampData, regularData, storageVars, probeVars, reqBody, schedulerVars, scanVars>>

\* The handler after analyzeWebsite returned: the result is stored and sent
\* with the id of the stored record.
RespondAnalysis ==
    /\ pc = "Done"
    /\ LET insertAnalysis == [url |-> AnalysisResult.url, analysisData |-> AnalysisResult]
           after == createSeoAnalysis(insertAnalysis)
       IN  /\ seoAnalyses' = after.seoAnalyses
           /\ currentAnalysisId' = after.currentAnalysisId
           /\ creations' = Append(creations, [insertAnalysis |-> insertAnalysis,
                                                returned |-> after.returned])
           /\ responses' = Append(responses,
                                  SuccessResponse(AnalysisResult, after.returned.id))
    /\ pc' = "Responded"
    /\ UNCHANGED <<failure, page, robotsFile, liveness, url, html, performance, isAmp,
                   ampUrl, regularUrl, metaTags, schema, breadcrumbs, allLinks,
                   linksToCheck, broken, links, robotsTxt, scores, ampComparison,
                   ampPatterns, requests>>
    /\ UNCHANGED <<ampData, regularData, probeVars, reqBody, schedulerVars, scanVars>>

\* The next request arrives after the response to the previous one; its run
\* of analyzeWebsite starts with locals of its own.
ReceiveAnalyze ==
    /\ pc = "Responded"
    /\ Len(responses) < MaxRequests
    /\ reqBody' \in Bodies
    /\ pc' = "Received"
    /\ ampData' = NoFetch
    /\ regularData' = NoFetch
    /\ failure' = ""
    /\ url' = <<>>
    /\ html' = NoDoc
    /\ performance' = NoPerformance
    /\ isAmp' = FALSE
    /\ ampUrl' = Null
    /\ regularUrl' = Null
    /\ metaTags' = NoMetaTags
    /\ schema' = extractSchema(NoDoc)
    /\ breadcrumbs' = extractBreadcrumbs(NoDoc)
    /\ allLinks' = <<>>
    /\ linksToCheck' = <<>>
    /\ broken' = <<>>
    /\ links' = NoLinks
    /\ robotsTxt' = NoRobotsTxt
    /\ scores' = NoScores
    /\ ampComparison' = <<>>
    /\ ampPatterns' = <<>>
    /\ requests' = <<>>
    /\ UNCHANGED <<page, robotsFile, liveness, storageVars, probeVars, responses, schedulerVars,
                   scanVars>>

\* The pages served to the analyses the handler starts: an AMP page without
\* a canonical link, and one whose canonical href does not resolve.
ApiPages ==
    {ArticleBody(TRUE, Null, Null, <<>>), ArticleBody(TRUE, Null, InvalidHref, <<>>)}

InitApi ==
    /\ pc = "Received"
    /\ page \in ApiPages
    /\ robotsFile = ExampleRobots
    /\ liveness = <<>>
    /\ Constructed
    /\ SchedulerStarted
    /\ NoScans
    /\ NoAlerts
    /\ outstanding = <<>>
    /\ responses = <<>>
    /\ FreshRun
    /\ reqBody \in Bodies

NextApi ==
    \/ ParseAnalyzeBody
    \/ FetchPage
    \/ ResolveAmp
    \/ Extract
    \/ StartLinks
    \/ LinksReturn
    \/ FetchRobots
    \/ Score
    \/ RespondAnalysis
    \/ RespondAnalysisError
    \/ ReceiveAnalyze

SpecApi == InitApi /\ [][NextApi]_vars


\* The successful responses sent so far, in order.
Successes == LET Ok(r) == r.success IN SelectSeq(responses, Ok)

\* The last response sent.
LastResponse == responses[Len(responses)]

\* C28: a request whose body is invalid or whose analysis fails is answered
\* with an error (success = false) and leaves the store as it is; a request
\* whose analysis succeeds creates exactly one record, which holds the
\* result that is sent, and the response carries the id of that record; so
\* the store holds one record for every successful response and no other.
C28_AnalyzeStoresOnSuccessOnly ==
    /\ [](/\ Len(creations) = Len(Successes)
          /\ DOMAIN seoAnalyses = {Successes[k].analysisId : k \in 1..Len(Successes)}
          /\ \A k \in 1..Len(Successes) :
                /\ Successes[k].analysisId = creations[k].returned.id
                /\ seoAnalyses[Successes[k].analysisId].analysisData = Successes[k].data[1]
                /\ \A j \in 1..Len(Successes) :
                      Successes[j].analysisId = Successes[k].analysisId => j = k
          /\ \A i \in 1..Len(responses) :
                ~responses[i].success => responses[i].status = 400)
    /\ [][/\ ((pc = "Received" /\ ~UrlAnalysisSchemaAccepts(reqBody)) \/ pc = "Failed") =>
                /\ Len(responses') = Len(responses) + 1
                /\ ~LastResponse'.success
                /\ UNCHANGED <<seoAnalyses, currentAnalysisId, creations>>
          /\ pc = "Done" =>
                /\ Len(responses') = Len(responses) + 1
                /\ LastResponse'.success
                /\ LastResponse'.data = <<AnalysisResult>>
                /\ Len(creations') = Len(creations) + 1
                /\ DOMAIN seoAnalyses' = DOMAIN seoAnalyses \cup {LastResponse'.analysisId}
                /\ LastResponse'.analysisId \notin DOMAIN seoAnalyses
                /\ \A id \in DOMAIN seoAnalyses : seoAnalyses'[id] = seoAnalyses[id]
          /\ pc \notin {"Done"} => UNCHANGED <<seoAnalyses, currentAnalysisId, creations>>]_vars

\* C28 witness: a request that was answered with a result and the id 1,
\* then a request whose analysis failed: the store holds the one record.
C28_Witness ==
    /\ pc = "Responded"
    /\ Len(responses) = 2
    /\ responses[1].success /\ responses[1].analysisId = 1
    /\ ~responses[2].success
    /\ failure # ""
    /\ DOMAIN seoAnalyses = {1}
    /\ seoAnalyses[1].analysisData.overallScore > 0

\* A request with an invalid body answered after a request that succeeded.
C28_WitnessInvalidBody ==
    /\ pc = "Responded"
    /\ Len(responses) = 2
    /\ responses[1].success
    /\ responses[2].error = "ZodError"
    /\ DOMAIN seoAnalyses = {1}

-----------------------------------------------------------------------------
(* The scheduler: checkScheduledScans under the isRunning flag             *)

\* Most timer ticks of a run of the scheduler.
MaxTicks == 8

\* What the scheduler leaves alone.
schedulerFrame == <<analysisVars, storageVars, probeVars, apiVars, scanVars>>

\* A tick that starts a sweep whatever the flag says.
TickUnguarded ==
    /\ ticks < MaxTicks
    /\ ticks' = ticks + 1
    /\ isRunning' = TRUE
    /\ sweeps' = Append(sweeps, Sweep("getAllActiveScans"))
    /\ UNCHANGED <<skipped, ended>>
    /\ UNCHANGED schedulerFrame

\* A timer tick: checkScheduledScans returns at once when the flag is set,
\* and else sets the flag and waits for the list of scans.
Tick ==
    /\ ticks < MaxTicks
    /\ ticks' = ticks + 1
    /\ IF isRunning
         THEN /\ skipped' = skipped + 1
              /\ UNCHANGED <<isRunning, sweeps>>
         ELSE /\ isRunning' = TRUE
              /\ sweeps' = Append(sweeps, Sweep("getAllActiveScans"))
              /\ UNCHANGED skipped
    /\ UNCHANGED ended
    /\ UNCHANGED schedulerFrame

\* A sweep gets the list of scans: it is empty, so the loop over it runs no
\* scan, and the sweep is at its finally.
ListScans ==
    /\ \E i \in 1..Len(sweeps) :
        /\ sweeps[i].at = "getAllActiveScans"
        /\ getAllActiveScans = <<>>
        /\ sweeps' = [sweeps EXCEPT ![i] = Sweep("finally")]
    /\ UNCHANGED <<isRunning, ticks, skipped, ended>>
    /\ UNCHANGED schedulerFrame

\* The finally of a sweep: the flag is released and the sweep ends.
EndSweep ==
    /\ \E i \in 1..Len(sweeps) :
        /\ sweeps[i].at = "finally"
        /\ sweeps' = SubSeq(sweeps, 1, i - 1) \o SubSeq(sweeps, i + 1, Len(sweeps))
    /\ isRunning' = FALSE
    /\ ended' = ended + 1
    /\ UNCHANGED <<ticks, skipped>>
    /\ UNCHANGED schedulerFrame

InitScheduler ==
    /\ pc = "Idle"
    /\ url = BlogUrl
    /\ page = NoDoc
    /\ html = NoDoc
    /\ robotsFile = <<>>
    /\ liveness = <<>>
    /\ Fresh

NextScheduler ==
    \/ Tick
    \/ ListScans
    \/ EndSweep

SpecScheduler == InitScheduler /\ [][NextScheduler]_vars

\* C25: at most one sweep is in progress at any time; the flag is set
\* exactly while a sweep is in progress; a tick that arrives during a sweep
\* returns without sweeping, and a tick that arrives when no sweep is in
\* progress starts one; the end of a sweep releases the flag; and every tick
\* and the initial check either swept or was skipped.
C25_RunningFlagIsMutex ==
    /\ [](/\ Len(sweeps) <= 1
          /\ isRunning <=> sweeps # <<>>
          /\ ticks + 1 = skipped + ended + Len(sweeps))
    /\ [][ticks' = ticks + 1 =>
            IF sweeps # <<>>
              THEN skipped' = skipped + 1 /\ UNCHANGED <<sweeps, isRunning>>
              ELSE Len(sweeps') = 1 /\ isRunning' /\ UNCHANGED skipped]_vars
    /\ [][Len(sweeps') < Len(sweeps) => (~isRunning' /\ ended' = ended + 1)]_vars

\* C25 witness: a sweep is in progress that a tick started after an earlier
\* sweep had ended, and a tick was skipped during a sweep.
C25_Witness ==
    /\ sweeps # <<>>
    /\ isRunning
    /\ ended >= 1
    /\ skipped >= 1
    /\ ticks >= 2

-----------------------------------------------------------------------------
(* Scheduled scans and alerts in MemStorage and in DatabaseStorage         *)

\* Most calls made to the storages in a run.
MaxCalls == 3

Emails == {"a@example.com", "b@example.com"}

\* The scans the route hands to createScheduledScan.
InsertScans == {[url |-> BlogUrl, userEmail |-> e, frequency |-> "daily"] : e \in Emails}

\* The ids a caller may name: those of the scans there can be, and one more.
ScanIds == 1..(MaxCalls + 1)

\* An alert of a scan.
Alert(id, scheduledScanId) == [id |-> id, scheduledScanId |-> scheduledScanId, isRead |-> FALSE]

\* Alerts of the first scan and of the second, and one of a scan that does
\* not exist.
AlertIds == {1, 2, 3}

AlertOf(id) == Alert(id, IF id = 3 THEN 99 ELSE id)

\* The alerts the storages may hold: none, as after construction, or the
\* three of AlertIds.
AlertTables == {<<>>, [id \in AlertIds |-> AlertOf(id)]}

\* The values of a map or the rows of a table, in the order of their ids.
RECURSIVE Values(_, _)
Values(f, n) ==
    IF n = 0 THEN <<>>
    ELSE Values(f, n - 1) \o (IF n \in DOMAIN f THEN <<f[n]>> ELSE <<>>)

\* MemStorage.createScheduledScan
createScheduledScan(insertScan) ==
    LET id == currentScanId
        scan == [url |-> insertScan.url, userEmail |-> insertScan.userEmail,
                 frequency |-> insertScan.frequency, id |-> id, isActive |-> TRUE,
                 lastScan |-> Null, lastResults |-> Null]
    IN  [currentScanId |-> id + 1,
         scheduledScans |-> [i \in DOMAIN scheduledScans \cup {id} |->
                               IF i = id THEN scan ELSE scheduledScans[i]],
         returned |-> scan]

\* MemStorage.getScheduledScans
getScheduledScans(userEmail) ==
    LET Mine(scan) == scan.userEmail = userEmail /\ scan.isActive
    IN  SelectSeq(Values(scheduledScans, currentScanId), Mine)

\* deleteScheduledScan without the test of the owner.
deleteScheduledScanOfAnyUser(id, userEmail) ==
    IF id \in DOMAIN scheduledScans
      THEN [scheduledScans |-> [scheduledScans EXCEPT ![id].isActive = FALSE],
            returned |-> TRUE]
      ELSE [scheduledScans |-> scheduledScans, returned |-> FALSE]

\* MemStorage.deleteScheduledScan
deleteScheduledScan(id, userEmail) ==
    IF id \in DOMAIN scheduledScans /\ scheduledScans[id].userEmail = userEmail
      THEN [scheduledScans |-> [scheduledScans EXCEPT ![id].isActive = FALSE],
            returned |-> TRUE]
      ELSE [scheduledScans |-> scheduledScans, returned |-> FALSE]

\* MemStorage.markAlertAsRead
markAlertAsRead(alertId, userEmail) ==
    IF alertId \in DOMAIN scanAlerts
      THEN LET scanId == scanAlerts[alertId].scheduledScanId IN
           IF scanId \in DOMAIN scheduledScans
                /\ scheduledScans[scanId].userEmail = userEmail
             THEN [scanAlerts |-> [scanAlerts EXCEPT ![alertId].isRead = TRUE],
                   returned |-> TRUE]
             ELSE [scanAlerts |-> scanAlerts, returned |-> FALSE]
      ELSE [scanAlerts |-> scanAlerts, returned |-> FALSE]

\* DatabaseStorage.createScheduledScan: the id is the next value of the
\* serial column and is_active takes its default.
dbCreateScheduledScan(insertScan) ==
    LET id == dbScanIdSeq
        row == [url |-> insertScan.url, userEmail |-> insertScan.userEmail,
                frequency |-> insertScan.frequency, id |-> id, isActive |-> TRUE,
                lastScan |-> Null, lastResults |-> Null]
    IN  [dbScanIdSeq |-> id + 1,
         dbScheduledScans |-> [i \in DOMAIN dbScheduledScans \cup {id} |->
                                 IF i = id THEN row ELSE dbScheduledScans[i]],
         returned |-> row]

\* DatabaseStorage.getScheduledScans
dbGetScheduledScans(userEmail) ==
    LET Mine(row) == row.userEmail = userEmail /\ row.isActive = TRUE
    IN  SelectSeq(Values(dbScheduledScans, dbScanIdSeq), Mine)

\* DatabaseStorage.deleteScheduledScan: the rows the update matches are set
\* inactive, and true is returned when there is one.
dbDeleteScheduledScan(id, userEmail) ==
    LET matched == {i \in DOMAIN dbScheduledScans :
                       i = id /\ dbScheduledScans[i].userEmail = userEmail}
    IN  [dbScheduledScans |-> [i \in DOMAIN dbScheduledScans |->
                                 IF i \in matched
                                   THEN [dbScheduledScans[i] EXCEPT !.isActive = FALSE]
                                   ELSE dbScheduledScans[i]],
         returned |-> matched # {}]

\* DatabaseStorage.markAlertAsRead: the update matches on the id of the
\* alert alone.
dbMarkAlertAsRead(alertId, userEmail) ==
    LET matched == {i \in DOMAIN dbScanAlerts : i = alertId}
    IN  [dbScanAlerts |-> [i \in DOMAIN dbScanAlerts |->
                             IF i \in matched
                               THEN [dbScanAlerts[i] EXCEPT !.isRead = TRUE]
                               ELSE dbScanAlerts[i]],
         returned |-> matched # {}]

\* A call in the history: what was called, with what, and what each of the
\* two storages returned.
Call(op, id, userEmail, mem, db) ==
    [op |-> op, id |-> id, userEmail |-> userEmail, mem |-> mem, db |-> db]

\* What a call to the storages leaves alone.
scanFrame == <<analysisVars, storageVars, probeVars, apiVars, schedulerVars>>

\* createScheduledScan called on both storages.
CreateScheduledScan ==
    /\ Len(calls) < MaxCalls
    /\ \E insertScan \in InsertScans :
        LET mem == createScheduledScan(insertScan)
            db == dbCreateScheduledScan(insertScan)
        IN  /\ scheduledScans' = mem.scheduledScans
            /\ currentScanId' = mem.currentScanId
            /\ dbScheduledScans' = db.dbScheduledScans
            /\ dbScanIdSeq' = db.dbScanIdSeq
            /\ calls' = Append(calls, Call("createScheduledScan", 0, insertScan.userEmail,
                                           mem.returned, db.returned))
    /\ UNCHANGED <<scanAlerts, dbScanAlerts>>
    /\ UNCHANGED scanFrame

\* deleteScheduledScan called on both storages.
DeleteScheduledScan ==
    /\ Len(calls) < MaxCalls
    /\ \E id \in ScanIds, userEmail \in Emails :
        LET mem == deleteScheduledScan(id, userEmail)
            db == dbDeleteScheduledScan(id, userEmail)
        IN  /\ scheduledScans' = mem.scheduledScans
            /\ dbScheduledScans' = db.dbScheduledScans
            /\ calls' = Append(calls, Call("deleteScheduledScan", id, userEmail,
                                           mem.returned, db.returned))
    /\ UNCHANGED <<currentScanId, dbScanIdSeq, scanAlerts, dbScanAlerts>>
    /\ UNCHANGED scanFrame

\* markAlertAsRead called on both storages.
MarkAlertAsRead ==
    /\ Len(calls) < MaxCalls
    /\ \E alertId \in AlertIds \cup {4}, userEmail \in Emails :
        LET mem == markAlertAsRead(alertId, userEmail)
            db == dbMarkAlertAsRead(alertId, userEmail)
        IN  /\ scanAlerts' = mem.scanAlerts
            /\ dbScanAlerts' = db.dbScanAlerts
            /\ calls' = Append(calls, Call("markAlertAsRead", alertId, userEmail,
                                           mem.returned, db.returned))
    /\ UNCHANGED <<scheduledScans, currentScanId, dbScheduledScans, dbScanIdSeq>>
    /\ UNCHANGED scanFrame

\* The two storages with the same alerts and no scan.
InitScans ==
    /\ pc = "Idle"
    /\ page = NoDoc
    /\ robotsFile = <<>>
    /\ liveness = <<>>
    /\ FreshRun
    /\ Constructed
    /\ SchedulerStarted
    /\ outstanding = <<>>
    /\ reqBody = [url |-> Null]
    /\ responses = <<>>
    /\ NoScans
    /\ scanAlerts \in AlertTables
    /\ dbScanAlerts = scanAlerts

NextScans ==
    \/ CreateScheduledScan
    \/ DeleteScheduledScan
    \/ MarkAlertAsRead

SpecScans == InitScans /\ [][NextScans]_vars


\* The calls of one operation in the history.
CallsOf(op) == {k \in 1..Len(calls) : calls[k].op = op}

Implementations == {"MemStorage", "DatabaseStorage"}

\* What a storage returned to the k-th call.
Returned(impl, k) == IF impl = "MemStorage" THEN calls[k].mem ELSE calls[k].db

\* The scans of a storage, by id.
ScansOf(impl) == IF impl = "MemStorage" THEN scheduledScans ELSE dbScheduledScans

\* What getScheduledScans of a storage returns.
ListedBy(impl, userEmail) ==
    IF impl = "MemStorage" THEN getScheduledScans(userEmail)
    ELSE dbGetScheduledScans(userEmail)

\* The ids of the scans a storage was asked to delete and returned true for.
DeletedIn(impl) ==
    {calls[k].id : k \in {d \in CallsOf("deleteScheduledScan") : Returned(impl, d)}}

\* The scans a storage created for a user.
CreatedFor(impl, userEmail) ==
    {Returned(impl, k) : k \in {c \in CallsOf("createScheduledScan") :
                                   calls[c].userEmail = userEmail}}

\* The steps of a storage allowed to a scan map: a scan once inactive stays
\* inactive, no scan disappears, and a delete that returns false changes
\* nothing while a delete that returns true only sets isActive of its scan.
ScanSteps(before, after, impl) ==
    /\ \A id \in DOMAIN before :
          /\ id \in DOMAIN after
          /\ ~before[id].isActive => ~after[id].isActive
    /\ (Len(calls') = Len(calls) + 1 /\ calls'[Len(calls')].op = "deleteScheduledScan") =>
          LET c == calls'[Len(calls')]
              returned == IF impl = "MemStorage" THEN c.mem ELSE c.db
          IN  IF returned
                THEN /\ c.id \in DOMAIN before
                     /\ after = [before EXCEPT ![c.id].isActive = FALSE]
                ELSE after = before

\* C30: in MemStorage and in DatabaseStorage, deleteScheduledScan returns
\* true exactly when a scan with the id exists and is of the given user, and
\* then only sets isActive of that scan to false, and changes nothing when
\* it returns false; getScheduledScans(e) returns exactly the scans created
\* for e that no delete returned true for; an inactive scan never becomes
\* active again; and every created scan has an id of its own.
C30_SoftDeleteByOwner ==
    /\ [](\A impl \in Implementations :
            /\ \A k \in CallsOf("deleteScheduledScan") :
                  Returned(impl, k) <=>
                      \E j \in CallsOf("createScheduledScan") :
                          /\ j < k
                          /\ Returned(impl, j).id = calls[k].id
                          /\ calls[j].userEmail = calls[k].userEmail
            /\ \A e \in Emails :
                  /\ {ListedBy(impl, e)[i].id : i \in 1..Len(ListedBy(impl, e))}
                        = {s.id : s \in CreatedFor(impl, e)} \ DeletedIn(impl)
                  /\ \A i \in 1..Len(ListedBy(impl, e)) :
                        /\ ListedBy(impl, e)[i].userEmail = e
                        /\ ListedBy(impl, e)[i].isActive
            /\ \A j, k \in CallsOf("createScheduledScan") :
                  Returned(impl, j).id = Returned(impl, k).id => j = k)
    /\ [][ScanSteps(scheduledScans, scheduledScans', "MemStorage")]_vars
    /\ [][ScanSteps(dbScheduledScans, dbScheduledScans', "DatabaseStorage")]_vars

\* C30 witness: a scan of a@example.com that b@example.com could not delete
\* and that its owner then deleted: it is stored inactive and no longer
\* listed.
C30_Witness ==
    /\ Len(calls) = 3
    /\ calls[1].op = "createScheduledScan" /\ calls[1].userEmail = "a@example.com"
    /\ calls[2] = Call("deleteScheduledScan", 1, "b@example.com", FALSE, FALSE)
    /\ calls[3] = Call("deleteScheduledScan", 1, "a@example.com", TRUE, TRUE)
    /\ ~scheduledScans[1].isActive
    /\ ~dbScheduledScans[1].isActive
    /\ getScheduledScans("a@example.com") = <<>>
    /\ dbGetScheduledScans("a@example.com") = <<>>


\* The k-th call, a markAlertAsRead, named an alert that exists and belongs
\* to a scan of the given user.
AlertOfUser(k) ==
    /\ calls[k].id \in DOMAIN scanAlerts
    /\ \E j \in CallsOf("createScheduledScan") :
          /\ j < k
          /\ calls[j].mem.id = scanAlerts[calls[k].id].scheduledScanId
          /\ calls[j].userEmail = calls[k].userEmail

=============================================================================
